---- MODULE Spec2Model ----
(***************************************************************************)
(* Model of the differential cache of src/utils/local_cache.py             *)
(* (class LocalCache): three SQLite tables (query_cache, row_cache,        *)
(* deleted_rows) and the operations that read and write them.              *)
(*                                                                         *)
(* Time is counted in whole hours.  `now` is the UTC clock that SQLite's   *)
(* datetime('now') and CURRENT_TIMESTAMP read; Python's datetime.now()     *)
(* reads the local clock, now + tz.                                        *)
(***************************************************************************)
EXTENDS Integers, Sequences, FiniteSets, TLC

\* ------------------------------------------------------------------------
\* Bounds
\* ------------------------------------------------------------------------
MaxTime == 2
MaxRows == 2
MaxHoursAgo == 1
keep_deleted_hours == 1

\* Offsets (hours) of the local clock from UTC that a deployment may have.
TzOffsets == {-2, 0, 2}

\* Query identities (results of _get_query_hash) that are polled.
QueryHashes == {"q1"}

\* ------------------------------------------------------------------------
\* Scalar values and rows.  A value is its Python type and its text.
\* ------------------------------------------------------------------------
PyInt(s) == [t |-> "int", s |-> s]
PyStr(s) == [t |-> "str", s |-> s]
PyNone == [t |-> "NoneType", s |-> "None"]
PyFloat(s) == [t |-> "float", s |-> s]
PyBool(s) == [t |-> "bool", s |-> s]
PyDatetime(s) == [t |-> "datetime", s |-> s]

\* Rows the source may return: a row (1,"A") and two variants of it in the
\* first column, (None,"A") and ("None","A").
Rows ==
  { <<PyInt("1"), PyStr("A")>>,
    <<PyNone, PyStr("A")>>,
    <<PyStr("None"), PyStr("A")>> }

\* Result sets: lists of at most MaxRows rows (duplicates allowed).
SeqsUpTo(S, n) == UNION { [1..k -> S] : k \in 0..n }
Sources == SeqsUpTo(Rows, MaxRows)

\* Values of the hours_ago argument: <<>> is None, <<n>> is the integer n.
HoursAgo == { <<>> } \cup { <<n>> : n \in 0..MaxHoursAgo }

Range(f) == { f[i] : i \in DOMAIN f }

\* All the orders in which the elements of a finite set can be listed.
Orderings(S) == { f \in [1..Cardinality(S) -> S] : Range(f) = S }

\* Python str(item)
str(item) == item.s

\* '|'.join(str(item) for item in row)
RECURSIVE join(_)
join(row) ==
  IF Len(row) = 0 THEN ""
  ELSE IF Len(row) = 1 THEN str(row[1])
  ELSE str(row[1]) \o "|" \o join(Tail(row))

\* hashlib.md5(...).hexdigest(): distinct strings get distinct digests.
md5(s) == s

get_row_hash(row) == md5(join(row))

\* json.dumps(list(row)) / tuple(json.loads(text)): a JSON array of tokens.
json_token(item) ==
  CASE item.t = "int" -> [k |-> "number", s |-> item.s]
    [] item.t = "float" -> IF item.s = "nan" THEN [k |-> "literal", s |-> "NaN"]
                           ELSE [k |-> "number", s |-> item.s]
    [] item.t = "bool" -> [k |-> "literal", s |-> IF item.s = "True" THEN "true" ELSE "false"]
    [] item.t = "str" -> [k |-> "string", s |-> item.s]
    [] item.t = "NoneType" -> [k |-> "null", s |-> "null"]

json_dumps(row) == [i \in DOMAIN row |-> json_token(row[i])]

\* a JSON number with a fraction part is read as a float, any other as an int
has_fraction(s) == \E i \in 1..Len(s) : SubSeq(s, i, i) = "."

json_value(tok) ==
  CASE tok.k = "number" -> IF has_fraction(tok.s) THEN PyFloat(tok.s) ELSE PyInt(tok.s)
    [] tok.k = "literal" -> IF tok.s = "NaN" THEN PyFloat("nan")
                            ELSE PyBool(IF tok.s = "true" THEN "True" ELSE "False")
    [] tok.k = "string" -> PyStr(tok.s)
    [] tok.k = "null" -> PyNone

json_loads(text) == [i \in DOMAIN text |-> json_value(text[i])]

\* ------------------------------------------------------------------------
\* The database collaborator
\* ------------------------------------------------------------------------
\* the method names _execute_on_database probes, in its order
Capabilities == <<"execute_query", "query", "fetch_all", "select">>

\* collaborators a LocalCache may be built on, each given by the method names
\* it exposes: a database manager with execute_query, and an object with none
\* of the probed methods
Collaborators == { {"execute_query"}, {} }

\* str(e) of the exceptions the collaborator's query method may raise
SourceErrors == { "ORA-00942", "timeout" }

\* the AttributeError raised when no probed method is found, for a collaborator
\* of class object (accents dropped)
no_method_message ==
  "Classe object nao possui metodo compativel (execute_query, query, fetch_all, ou select)"

has_method(conn) == \E i \in DOMAIN Capabilities : Capabilities[i] \in conn

\* except Exception as e: raise Exception(f"Erro ao executar query no banco: {e}")
execute_error(e) ==
  [type |-> "Exception", message |-> "Erro ao executar query no banco: " \o e]

\* ------------------------------------------------------------------------
\* State
\* ------------------------------------------------------------------------
VARIABLES
  query_cache,   \* table query_cache: rows (query_hash, created_at, updated_at, total_rows)
  row_cache,     \* table row_cache: rows (query_hash, row_hash, row_data, created_at)
  deleted_rows,  \* table deleted_rows: rows (query_hash, row_hash, row_data, deleted_at)
  now,           \* UTC clock
  tz,            \* local clock minus UTC clock
  last_rows,     \* per query: the rows of the source result of the last process_select since the last clear
  ret,           \* the operation that has just returned and what it returned
  db_connection, \* the method names the database collaborator exposes
  cleared,       \* the queries whose Query Cache Entry the last clear wiped and that were not polled since
  restarted,     \* the LocalCache instance was constructed over a used cache file and has not completed a process_select yet
  calls          \* per concurrent caller: how far its process_select has got, and its local variables

vars == <<query_cache, row_cache, deleted_rows, now, tz, last_rows, ret, db_connection, cleared,
          restarted, calls>>

tables == <<query_cache, row_cache, deleted_rows>>

\* no process_select on the query since the last clear
NoSource == {<<>>}

\* no call has returned a result the caller still holds
NoResult == [op |-> "none"]

\* callers that may run process_select on the same cache file at the same time
Callers == {1, 2}

\* a caller that is not inside process_select
Idle == [pc |-> "idle"]

NoCalls == [p \in Callers |-> Idle]

\* datetime.now().strftime('%Y-%m-%d %H:%M:%S')
local_now == now + tz

\* SQLite datetime('now') and CURRENT_TIMESTAMP
sqlite_now == now

Init ==
  /\ query_cache = {}
  /\ row_cache = {}
  /\ deleted_rows = {}
  /\ now = 0
  /\ tz \in TzOffsets
  /\ last_rows = [q \in QueryHashes |-> NoSource]
  /\ ret = NoResult
  /\ db_connection \in Collaborators
  /\ cleared = {}
  /\ restarted = FALSE
  /\ calls = NoCalls

\* ------------------------------------------------------------------------
\* Helpers of LocalCache
\* ------------------------------------------------------------------------
cache_exists(query_hash) ==
  Cardinality({ e \in query_cache : e.query_hash = query_hash }) > 0

\* DELETE FROM deleted_rows WHERE datetime(deleted_at) < datetime('now', '-N hours')
expired(d) == d.deleted_at < sqlite_now - keep_deleted_hours

after_cleanup(tbl) == { d \in tbl : ~expired(d) }

\* the loop that fills new_hashes / new_data_by_hash in process_select
new_hashes_of(new_data) == { get_row_hash(new_data[i]) : i \in DOMAIN new_data }

new_data_by_hash_of(new_data) ==
  [h \in new_hashes_of(new_data) |->
     LET is == { i \in DOMAIN new_data : get_row_hash(new_data[i]) = h }
         last == CHOOSE i \in is : \A j \in is : j <= i
     IN new_data[last]]

\* SELECT row_hash, row_data FROM row_cache WHERE query_hash = ?
cached_rows(query_hash) == { r \in row_cache : r.query_hash = query_hash }

cached_hashes_of(query_hash) == { r.row_hash : r \in cached_rows(query_hash) }

cached_data_of(query_hash) ==
  [h \in cached_hashes_of(query_hash) |->
     json_loads((CHOOSE r \in cached_rows(query_hash) : r.row_hash = h).row_data)]

\* _save_to_cache: INSERT OR REPLACE the query entry, replace the query's rows
save_query_cache(qc, query_hash, data_by_hash) ==
  { e \in qc : e.query_hash # query_hash } \cup
  { [query_hash |-> query_hash, created_at |-> local_now,
     updated_at |-> local_now, total_rows |-> Cardinality(DOMAIN data_by_hash)] }

save_row_cache(rc, query_hash, data_by_hash) ==
  { r \in rc : r.query_hash # query_hash } \cup
  { [query_hash |-> query_hash, row_hash |-> h,
     row_data |-> json_dumps(data_by_hash[h]), created_at |-> sqlite_now]
    : h \in DOMAIN data_by_hash }

\* variant: rewrites the whole entry (INSERT OR REPLACE), its created_at too
update_query_cache_replacing(qc, query_hash, data_by_hash) ==
  save_query_cache(qc, query_hash, data_by_hash)

\* variant: the UPDATE sets updated_at only
update_query_cache_keeping_count(qc, query_hash, data_by_hash) ==
  { IF e.query_hash = query_hash
      THEN [e EXCEPT !.updated_at = local_now]
      ELSE e : e \in qc }

\* _update_cache: UPDATE the query entry, INSERT the added rows
update_query_cache(qc, query_hash, data_by_hash) ==
  { IF e.query_hash = query_hash
      THEN [e EXCEPT !.updated_at = local_now,
                     !.total_rows = Cardinality(DOMAIN data_by_hash)]
      ELSE e : e \in qc }

\* variant: writes every row of the new result again (INSERT OR REPLACE)
update_row_cache_rewrite_all(rc, query_hash, data_by_hash, added_hashes) ==
  { r \in rc : ~(r.query_hash = query_hash /\ r.row_hash \in DOMAIN data_by_hash) } \cup
  { [query_hash |-> query_hash, row_hash |-> h,
     row_data |-> json_dumps(data_by_hash[h]), created_at |-> sqlite_now]
    : h \in DOMAIN data_by_hash }

\* variant: stamps the rows the query keeps with the time of this poll
update_row_cache_restamping(rc, query_hash, data_by_hash, added_hashes) ==
  { IF r.query_hash = query_hash THEN [r EXCEPT !.created_at = sqlite_now] ELSE r
    : r \in rc } \cup
  { [query_hash |-> query_hash, row_hash |-> h,
     row_data |-> json_dumps(data_by_hash[h]), created_at |-> sqlite_now]
    : h \in added_hashes }

\* variant: the added rows are not inserted
update_row_cache_not_recording(rc, query_hash, data_by_hash, added_hashes) == rc

update_row_cache(rc, query_hash, data_by_hash, added_hashes) ==
  rc \cup
  { [query_hash |-> query_hash, row_hash |-> h,
     row_data |-> json_dumps(data_by_hash[h]), created_at |-> sqlite_now]
    : h \in added_hashes }

\* _move_to_deleted: INSERT OR REPLACE into deleted_rows, DELETE from row_cache
\* variant: INSERT OR IGNORE, an existing Deleted Row Entry is kept as it is
move_deleted_rows_or_ignore(dr, query_hash, removed_hashes, cached_data) ==
  dr \cup
  { [query_hash |-> query_hash, row_hash |-> h,
     row_data |-> json_dumps(cached_data[h]), deleted_at |-> local_now]
    : h \in { h \in removed_hashes :
               ~\E d \in dr : d.query_hash = query_hash /\ d.row_hash = h } }

move_deleted_rows(dr, query_hash, removed_hashes, cached_data) ==
  { d \in dr : ~(d.query_hash = query_hash /\ d.row_hash \in removed_hashes) } \cup
  { [query_hash |-> query_hash, row_hash |-> h,
     row_data |-> json_dumps(cached_data[h]), deleted_at |-> local_now]
    : h \in removed_hashes }

\* variant: the DELETE matches the row identity in every query
move_row_cache_any_query(rc, query_hash, removed_hashes) ==
  { r \in rc : r.row_hash \notin removed_hashes }

move_row_cache(rc, query_hash, removed_hashes) ==
  { r \in rc : ~(r.query_hash = query_hash /\ r.row_hash \in removed_hashes) }

\* ------------------------------------------------------------------------
\* Operations
\* ------------------------------------------------------------------------

\* variant: total_new counts the distinct Row Identities
process_select_first_counting_distinct(query_hash, new_data) ==
  /\ ret = NoResult
  /\ has_method(db_connection)
  /\ ~cache_exists(query_hash)
  /\ LET data_by_hash == new_data_by_hash_of(new_data) IN
       /\ deleted_rows' = after_cleanup(deleted_rows)
       /\ query_cache' = save_query_cache(query_cache, query_hash, data_by_hash)
       /\ row_cache' = save_row_cache(row_cache, query_hash, data_by_hash)
       /\ ret' = [op |-> "process_select", q |-> query_hash,
                  data |-> new_data, added |-> new_data, removed |-> <<>>,
                  total_new |-> Cardinality(DOMAIN data_by_hash),
                  cache_hit |-> FALSE, same_source |-> FALSE,
                  after_clear |-> (query_hash \in cleared),
                  after_restart |-> restarted]
  /\ last_rows' = [last_rows EXCEPT ![query_hash] = Range(new_data)]
  /\ cleared' = cleared \ {query_hash}
  /\ restarted' = FALSE
  /\ UNCHANGED <<now, tz, db_connection, calls>>

\* process_select when no Query Cache Entry exists (first run)
process_select_first(query_hash, new_data) ==
  /\ ret = NoResult
  /\ has_method(db_connection)
  /\ ~cache_exists(query_hash)
  /\ LET data_by_hash == new_data_by_hash_of(new_data) IN
       /\ deleted_rows' = after_cleanup(deleted_rows)
       /\ query_cache' = save_query_cache(query_cache, query_hash, data_by_hash)
       /\ row_cache' = save_row_cache(row_cache, query_hash, data_by_hash)
       /\ ret' = [op |-> "process_select", q |-> query_hash,
                  data |-> new_data, added |-> new_data, removed |-> <<>>,
                  total_new |-> Len(new_data),
                  cache_hit |-> FALSE, same_source |-> FALSE,
                  after_clear |-> (query_hash \in cleared),
                  after_restart |-> restarted]
  /\ last_rows' = [last_rows EXCEPT ![query_hash] = Range(new_data)]
  /\ cleared' = cleared \ {query_hash}
  /\ restarted' = FALSE
  /\ UNCHANGED <<now, tz, db_connection, calls>>

\* variant: a cache hit returns the whole source result as `data`
process_select_hit_returning_all(query_hash, new_data) ==
  /\ ret = NoResult
  /\ has_method(db_connection)
  /\ cache_exists(query_hash)
  /\ LET data_by_hash == new_data_by_hash_of(new_data)
         new_hashes == new_hashes_of(new_data)
         cached_data == cached_data_of(query_hash)
         cached_hashes == cached_hashes_of(query_hash)
         added_hashes == new_hashes \ cached_hashes
         removed_hashes == cached_hashes \ new_hashes
         cleaned == after_cleanup(deleted_rows)
     IN
       /\ deleted_rows' = IF removed_hashes # {}
                            THEN move_deleted_rows(cleaned, query_hash, removed_hashes, cached_data)
                            ELSE cleaned
       /\ row_cache' = update_row_cache(
                         IF removed_hashes # {}
                           THEN move_row_cache(row_cache, query_hash, removed_hashes)
                           ELSE row_cache,
                         query_hash, data_by_hash, added_hashes)
       /\ query_cache' = update_query_cache(query_cache, query_hash, data_by_hash)
       /\ \E ao \in Orderings(added_hashes), ro \in Orderings(removed_hashes) :
            LET added_data == [i \in DOMAIN ao |-> data_by_hash[ao[i]]]
                removed_data == [i \in DOMAIN ro |-> cached_data[ro[i]]]
            IN ret' = [op |-> "process_select", q |-> query_hash,
                       data |-> new_data, added |-> added_data, removed |-> removed_data,
                       total_new |-> Len(new_data),
                       total_cached |-> Cardinality(cached_hashes),
                       cache_hit |-> TRUE,
                       same_source |-> (Range(new_data) = last_rows[query_hash]),
                       after_clear |-> (query_hash \in cleared),
                       after_restart |-> restarted]
  /\ last_rows' = [last_rows EXCEPT ![query_hash] = Range(new_data)]
  /\ cleared' = cleared \ {query_hash}
  /\ restarted' = FALSE
  /\ UNCHANGED <<now, tz, db_connection, calls>>

\* process_select when a Query Cache Entry exists (cache hit)
process_select_hit(query_hash, new_data) ==
  /\ ret = NoResult
  /\ has_method(db_connection)
  /\ cache_exists(query_hash)
  /\ LET data_by_hash == new_data_by_hash_of(new_data)
         new_hashes == new_hashes_of(new_data)
         cached_data == cached_data_of(query_hash)
         cached_hashes == cached_hashes_of(query_hash)
         added_hashes == new_hashes \ cached_hashes
         removed_hashes == cached_hashes \ new_hashes
         cleaned == after_cleanup(deleted_rows)
     IN
       /\ deleted_rows' = IF removed_hashes # {}
                            THEN move_deleted_rows(cleaned, query_hash, removed_hashes, cached_data)
                            ELSE cleaned
       /\ row_cache' = update_row_cache(
                         IF removed_hashes # {}
                           THEN move_row_cache(row_cache, query_hash, removed_hashes)
                           ELSE row_cache,
                         query_hash, data_by_hash, added_hashes)
       /\ query_cache' = update_query_cache(query_cache, query_hash, data_by_hash)
       /\ \E ao \in Orderings(added_hashes), ro \in Orderings(removed_hashes) :
            LET added_data == [i \in DOMAIN ao |-> data_by_hash[ao[i]]]
                removed_data == [i \in DOMAIN ro |-> cached_data[ro[i]]]
            IN ret' = [op |-> "process_select", q |-> query_hash,
                       data |-> added_data, added |-> added_data, removed |-> removed_data,
                       total_new |-> Len(new_data),
                       total_cached |-> Cardinality(cached_hashes),
                       cache_hit |-> TRUE,
                       same_source |-> (Range(new_data) = last_rows[query_hash]),
                       after_clear |-> (query_hash \in cleared),
                       after_restart |-> restarted]
  /\ last_rows' = [last_rows EXCEPT ![query_hash] = Range(new_data)]
  /\ cleared' = cleared \ {query_hash}
  /\ restarted' = FALSE
  /\ UNCHANGED <<now, tz, db_connection, calls>>

process_select(query_hash, new_data) ==
  \/ process_select_first(query_hash, new_data)
  \/ process_select_hit(query_hash, new_data)

\* variant: the Query Cache Entry is written before the source query runs
process_select_source_fails_entry_written(query_hash, e) ==
  /\ ret = NoResult
  /\ has_method(db_connection)
  /\ deleted_rows' = after_cleanup(deleted_rows)
  /\ query_cache' = save_query_cache(query_cache, query_hash, <<>>)
  /\ ret' = [op |-> "raise", call |-> "process_select", q |-> query_hash,
             at |-> "_execute_on_database", error |-> execute_error(e)]
  /\ UNCHANGED <<row_cache, now, tz, last_rows, db_connection, restarted, calls, cleared>>

\* process_select when the collaborator's query method raises e: the cleanup
\* has run, nothing else is written, the wrapped exception reaches the caller
process_select_source_fails(query_hash, e) ==
  /\ ret = NoResult
  /\ has_method(db_connection)
  /\ deleted_rows' = after_cleanup(deleted_rows)
  /\ ret' = [op |-> "raise", call |-> "process_select", q |-> query_hash,
             at |-> "_execute_on_database", error |-> execute_error(e)]
  /\ UNCHANGED <<query_cache, row_cache, now, tz, last_rows, db_connection, restarted, calls, cleared>>

\* process_select when the collaborator has none of the probed methods
process_select_no_method(query_hash) ==
  /\ ret = NoResult
  /\ ~has_method(db_connection)
  /\ deleted_rows' = after_cleanup(deleted_rows)
  /\ ret' = [op |-> "raise", call |-> "process_select", q |-> query_hash,
             at |-> "_execute_on_database", error |-> execute_error(no_method_message)]
  /\ UNCHANGED <<query_cache, row_cache, now, tz, last_rows, db_connection, restarted, calls, cleared>>

\* the sqlite3 exception of a statement that fails on the cache file
storage_error == [type |-> "sqlite3.OperationalError", message |-> "database is locked"]

\* ret.at names the method the exception was raised in; ret.uncommitted tells
\* whether the transaction that was open had written anything

\* process_select when the DELETE of its retention cleanup fails: nothing is
\* deleted, the sqlite3 exception leaves process_select at its first statement
process_select_cleanup_fails(query_hash) ==
  /\ ret = NoResult
  /\ ret' = [op |-> "raise", call |-> "process_select", q |-> query_hash,
             at |-> "_cleanup_old_deleted_records", error |-> storage_error]
  /\ UNCHANGED <<query_cache, row_cache, deleted_rows, now, tz, last_rows, db_connection, restarted, calls, cleared>>

\* cleanup_old_deleted_records() when its DELETE fails
cleanup_old_deleted_records_fails ==
  /\ ret = NoResult
  /\ ret' = [op |-> "raise", call |-> "cleanup_old_deleted_records",
             at |-> "_cleanup_old_deleted_records", error |-> storage_error]
  /\ UNCHANGED <<query_cache, row_cache, deleted_rows, now, tz, last_rows, db_connection, restarted, calls, cleared>>

\* the tables as the write phase of a cache hit has them after its first k
\* statements: INSERT OR REPLACE INTO deleted_rows and DELETE FROM row_cache
\* (_move_to_deleted, when rows were removed), UPDATE query_cache and INSERT
\* INTO row_cache (_update_cache)
hit_statements(k, query_hash, new_data) ==
  LET data_by_hash == new_data_by_hash_of(new_data)
      new_hashes == new_hashes_of(new_data)
      cached_data == cached_data_of(query_hash)
      cached_hashes == cached_hashes_of(query_hash)
      added_hashes == new_hashes \ cached_hashes
      removed_hashes == cached_hashes \ new_hashes
      cleaned == after_cleanup(deleted_rows)
      dr1 == IF k >= 1 /\ removed_hashes # {}
               THEN move_deleted_rows(cleaned, query_hash, removed_hashes, cached_data)
               ELSE cleaned
      rc2 == IF k >= 2 /\ removed_hashes # {}
               THEN move_row_cache(row_cache, query_hash, removed_hashes)
               ELSE row_cache
      qc3 == IF k >= 3
               THEN update_query_cache(query_cache, query_hash, data_by_hash)
               ELSE query_cache
      rc4 == IF k >= 4
               THEN update_row_cache(rc2, query_hash, data_by_hash, added_hashes)
               ELSE rc2
  IN <<qc3, rc4, dr1>>

\* the tables as the write phase of a first run (_save_to_cache) has them
\* after its first k statements: INSERT OR REPLACE INTO query_cache, DELETE
\* FROM row_cache, INSERT INTO row_cache
first_statements(k, query_hash, new_data) ==
  LET data_by_hash == new_data_by_hash_of(new_data)
      qc1 == IF k >= 1
               THEN save_query_cache(query_cache, query_hash, data_by_hash)
               ELSE query_cache
      rc2 == IF k >= 2
               THEN { r \in row_cache : r.query_hash # query_hash }
               ELSE row_cache
      rc3 == IF k >= 3
               THEN save_row_cache(row_cache, query_hash, data_by_hash)
               ELSE rc2
  IN <<qc1, rc3, after_cleanup(deleted_rows)>>

\* variant: what was written before the failure stays in the tables
rollback_keeping_writes(committed, written) == written

\* `with sqlite3.connect(...) as conn:` left by an exception: the connection
\* rolls the open transaction back to what was last committed
rollback(committed, written) == committed

\* process_select when the statement after the first k statements of its
\* write phase fails on the cache file: the cleanup is committed, the write
\* phase is rolled back, the sqlite3 exception reaches the caller
process_select_write_fails(query_hash, new_data, k) ==
  /\ ret = NoResult
  /\ has_method(db_connection)
  /\ k \in 0..(IF cache_exists(query_hash) THEN 3 ELSE 2)
  /\ LET committed == <<query_cache, row_cache, after_cleanup(deleted_rows)>>
         written == IF cache_exists(query_hash)
                      THEN hit_statements(k, query_hash, new_data)
                      ELSE first_statements(k, query_hash, new_data)
         kept == rollback(committed, written)
     IN /\ query_cache' = kept[1]
        /\ row_cache' = kept[2]
        /\ deleted_rows' = kept[3]
        /\ ret' = [op |-> "raise", call |-> "process_select", q |-> query_hash,
                   at |-> "process_select", error |-> storage_error,
                   uncommitted |-> (written # committed)]
  /\ UNCHANGED <<now, tz, last_rows, db_connection, restarted, calls, cleared>>

\* variant: each call deletes one expired entry only (DELETE ... LIMIT 1)
cleanup_old_deleted_records_one_per_call ==
  /\ ret = NoResult
  /\ LET old == deleted_rows \ after_cleanup(deleted_rows)
         gone == IF old = {} THEN {} ELSE { CHOOSE d \in old : TRUE }
     IN /\ deleted_rows' = deleted_rows \ gone
        /\ ret' = [op |-> "cleanup", count |-> Cardinality(gone)]
  /\ UNCHANGED <<query_cache, row_cache, now, tz, last_rows, db_connection, restarted, calls, cleared>>

\* variant: the cleanup also deletes the Active Row Entries older than the
\* retention window
cleanup_old_deleted_records_purging_active ==
  /\ ret = NoResult
  /\ deleted_rows' = after_cleanup(deleted_rows)
  /\ row_cache' = { r \in row_cache : ~(r.created_at < sqlite_now - keep_deleted_hours) }
  /\ ret' = [op |-> "cleanup", count |-> Cardinality(deleted_rows \ after_cleanup(deleted_rows))]
  /\ UNCHANGED <<query_cache, now, tz, last_rows, db_connection, restarted, calls, cleared>>

\* cleanup_old_deleted_records()
cleanup_old_deleted_records ==
  /\ ret = NoResult
  /\ deleted_rows' = after_cleanup(deleted_rows)
  /\ ret' = [op |-> "cleanup", count |-> Cardinality(deleted_rows \ after_cleanup(deleted_rows))]
  /\ UNCHANGED <<query_cache, row_cache, now, tz, last_rows, db_connection, restarted, calls, cleared>>

\* the tables as the delete phase of clear_cache_completely has them after
\* its first k statements: DELETE FROM row_cache, DELETE FROM deleted_rows,
\* DELETE FROM query_cache
clear_statements(k) ==
  << IF k >= 3 THEN {} ELSE query_cache,
     IF k >= 1 THEN {} ELSE row_cache,
     IF k >= 2 THEN {} ELSE deleted_rows >>

\* clear_cache_completely() when the statement after the first k statements
\* of its delete phase fails on the cache file
clear_cache_completely_delete_fails(k) ==
  /\ ret = NoResult
  /\ k \in 0..2
  /\ LET committed == <<query_cache, row_cache, deleted_rows>>
         written == clear_statements(k)
         kept == rollback(committed, written)
     IN /\ query_cache' = kept[1]
        /\ row_cache' = kept[2]
        /\ deleted_rows' = kept[3]
        /\ ret' = [op |-> "raise", call |-> "clear_cache_completely",
                   at |-> "clear_cache_completely", error |-> storage_error,
                   uncommitted |-> (written # committed)]
  /\ UNCHANGED <<now, tz, last_rows, db_connection, restarted, calls, cleared>>

\* variant: leaves the query_cache table alone
clear_cache_completely_keeping_queries ==
  /\ ret = NoResult
  /\ row_cache' = {}
  /\ deleted_rows' = {}
  /\ query_cache' = query_cache
  /\ ret' = [op |-> "clear",
             ok |-> (Cardinality(row_cache') + Cardinality(deleted_rows')
                       + Cardinality(query_cache') = 0)]
  /\ last_rows' = [q \in DOMAIN last_rows |-> NoSource]
  /\ cleared' = { e.query_hash : e \in query_cache }
  /\ UNCHANGED <<now, tz, db_connection, restarted, calls>>

\* variant: the Active Row Entries are not deleted
clear_cache_completely_keeping_rows ==
  /\ ret = NoResult
  /\ row_cache' = row_cache
  /\ deleted_rows' = {}
  /\ query_cache' = {}
  /\ ret' = [op |-> "clear",
             ok |-> (Cardinality(row_cache') + Cardinality(deleted_rows')
                       + Cardinality(query_cache') = 0)]
  /\ last_rows' = [q \in DOMAIN last_rows |-> NoSource]
  /\ cleared' = { e.query_hash : e \in query_cache }
  /\ UNCHANGED <<now, tz, db_connection, restarted, calls>>

\* variant: leaves the deleted_rows table alone
clear_cache_completely_keeping_deleted ==
  /\ ret = NoResult
  /\ row_cache' = {}
  /\ deleted_rows' = deleted_rows
  /\ query_cache' = {}
  /\ ret' = [op |-> "clear",
             ok |-> (Cardinality(row_cache') + Cardinality(deleted_rows')
                       + Cardinality(query_cache') = 0)]
  /\ last_rows' = [q \in DOMAIN last_rows |-> NoSource]
  /\ cleared' = { e.query_hash : e \in query_cache }
  /\ UNCHANGED <<now, tz, db_connection, restarted, calls>>
\* clear_cache_completely()
clear_cache_completely ==
  /\ ret = NoResult
  /\ row_cache' = {}
  /\ deleted_rows' = {}
  /\ query_cache' = {}
  /\ ret' = [op |-> "clear",
             ok |-> (Cardinality(row_cache') + Cardinality(deleted_rows')
                       + Cardinality(query_cache') = 0)]
  /\ last_rows' = [q \in DOMAIN last_rows |-> NoSource]
  /\ cleared' = { e.query_hash : e \in query_cache }
  /\ UNCHANGED <<now, tz, db_connection, restarted, calls>>

\* clear_cache_completely() while another connection to the cache file
\* commits the first-run save of a process_select(query_hash) that returned
\* new_data, after the DELETEs are committed and before the verification
\* counts the rows
clear_cache_completely_raced(query_hash, new_data) ==
  /\ ret = NoResult
  /\ LET data_by_hash == new_data_by_hash_of(new_data) IN
       /\ query_cache' = save_query_cache({}, query_hash, data_by_hash)
       /\ row_cache' = save_row_cache({}, query_hash, data_by_hash)
  /\ deleted_rows' = {}
  /\ ret' = [op |-> "clear",
             ok |-> (Cardinality(row_cache') + Cardinality(deleted_rows')
                       + Cardinality(query_cache') = 0)]
  /\ last_rows' = [q \in DOMAIN last_rows |->
                     IF q = query_hash THEN Range(new_data) ELSE NoSource]
  /\ cleared' = { e.query_hash : e \in query_cache }
  /\ UNCHANGED <<now, tz, db_connection, restarted, calls>>

\* variant: stores the rows it fetched as the query's cache
get_all_data_miss_saving(query_hash, db_rows) ==
  /\ ret = NoResult
  /\ has_method(db_connection)
  /\ ~cache_exists(query_hash)
  /\ ret' = [op |-> "get_all_data", q |-> query_hash,
             data |-> db_rows, executed |-> TRUE]
  /\ query_cache' = save_query_cache(query_cache, query_hash, new_data_by_hash_of(db_rows))
  /\ row_cache' = save_row_cache(row_cache, query_hash, new_data_by_hash_of(db_rows))
  /\ UNCHANGED <<deleted_rows, now, tz, last_rows, db_connection, restarted, calls, cleared>>

\* get_all_data(sql, params) when no Query Cache Entry exists; db_rows is
\* what the source returns
get_all_data_miss(query_hash, db_rows) ==
  /\ ret = NoResult
  /\ has_method(db_connection)
  /\ ~cache_exists(query_hash)
  /\ ret' = [op |-> "get_all_data", q |-> query_hash,
             data |-> db_rows, executed |-> TRUE]
  /\ UNCHANGED <<query_cache, row_cache, deleted_rows, now, tz, last_rows, db_connection, restarted, calls, cleared>>

\* get_all_data(sql, params) when a Query Cache Entry exists
get_all_data_cached(query_hash) ==
  /\ ret = NoResult
  /\ cache_exists(query_hash)
  /\ \E o \in Orderings(cached_rows(query_hash)) :
       ret' = [op |-> "get_all_data", q |-> query_hash,
               data |-> [i \in DOMAIN o |-> json_loads(o[i].row_data)],
               executed |-> FALSE]
  /\ UNCHANGED <<query_cache, row_cache, deleted_rows, now, tz, last_rows, db_connection, restarted, calls, cleared>>

\* `if hours_ago:` is false for None and for 0
truthy(hours_ago) == hours_ago # <<>> /\ hours_ago[1] # 0

\* the rows the SELECT of get_deleted_records matches
selected_deleted(query_hash, hours_ago) ==
  IF truthy(hours_ago)
    THEN { d \in deleted_rows : /\ d.query_hash = query_hash
                                /\ d.deleted_at > sqlite_now - hours_ago[1] }
    ELSE { d \in deleted_rows : d.query_hash = query_hash }

\* get_deleted_records(sql, params, hours_ago): rows ORDER BY deleted_at DESC,
\* each returned with its deleted_at
get_deleted_records(query_hash, hours_ago) ==
  /\ ret = NoResult
  /\ \E o \in Orderings(selected_deleted(query_hash, hours_ago)) :
       /\ \A i, j \in DOMAIN o : i < j => o[i].deleted_at >= o[j].deleted_at
       /\ ret' = [op |-> "get_deleted_records", q |-> query_hash, hours_ago |-> hours_ago,
                  data |-> [i \in DOMAIN o |->
                              [row |-> json_loads(o[i].row_data),
                               deleted_at |-> o[i].deleted_at]]]
  /\ UNCHANGED <<query_cache, row_cache, deleted_rows, now, tz, last_rows, db_connection, restarted, calls, cleared>>

\* SUM(total_rows) FROM query_cache
RECURSIVE sum_total_rows(_)
sum_total_rows(qc) ==
  IF qc = {} THEN 0
  ELSE LET e == CHOOSE x \in qc : TRUE
       IN e.total_rows + sum_total_rows(qc \ {e})

\* get_cache_stats(); MIN/MAX of no rows is None, modelled as <<>>
get_cache_stats ==
  /\ ret = NoResult
  /\ LET recent == { d \in deleted_rows : d.deleted_at > sqlite_now - keep_deleted_hours }
         times == { d.deleted_at : d \in recent }
     IN ret' = [op |-> "get_cache_stats",
                total_queries |-> Cardinality(query_cache),
                total_active_rows |-> sum_total_rows(query_cache),
                total_deleted_rows |-> Cardinality(deleted_rows),
                recent_deleted_rows |-> Cardinality(recent),
                oldest_deleted |-> IF times = {} THEN <<>>
                                   ELSE << CHOOSE t \in times : \A u \in times : t <= u >>,
                newest_deleted |-> IF times = {} THEN <<>>
                                   ELSE << CHOOSE t \in times : \A u \in times : t >= u >>]
  /\ UNCHANGED <<query_cache, row_cache, deleted_rows, now, tz, last_rows, db_connection, restarted, calls, cleared>>

\* time passes between two operations
Tick ==
  /\ ret = NoResult
  /\ now < MaxTime
  /\ now' = now + 1
  /\ UNCHANGED <<query_cache, row_cache, deleted_rows, tz, last_rows, ret, db_connection, restarted, calls, cleared>>

\* the caller is done with the result of the call and goes on
discard_result ==
  /\ ret # NoResult
  /\ ret' = NoResult
  /\ UNCHANGED <<query_cache, row_cache, deleted_rows, now, tz, last_rows, db_connection, restarted, calls, cleared>>

Next ==
  \/ \E q \in QueryHashes, src \in Sources : process_select(q, src)
  \/ \E q \in QueryHashes, e \in SourceErrors : process_select_source_fails(q, e)
  \/ \E q \in QueryHashes : process_select_no_method(q)
  \/ \E q \in QueryHashes : process_select_cleanup_fails(q)
  \/ \E q \in QueryHashes, src \in Sources, k \in 0..3 : process_select_write_fails(q, src, k)
  \/ cleanup_old_deleted_records_fails
  \/ \E q \in QueryHashes, src \in Sources : get_all_data_miss(q, src)
  \/ \E q \in QueryHashes : get_all_data_cached(q)
  \/ \E q \in QueryHashes, h \in HoursAgo : get_deleted_records(q, h)
  \/ get_cache_stats
  \/ cleanup_old_deleted_records
  \/ clear_cache_completely
  \/ \E q \in QueryHashes, src \in Sources : clear_cache_completely_raced(q, src)
  \/ \E k \in 0..2 : clear_cache_completely_delete_fails(k)
  \/ discard_result
  \/ Tick

Spec == Init /\ [][Next]_vars

\* ------------------------------------------------------------------------
\* Two polled queries on one cache
\* ------------------------------------------------------------------------
MaxRowsIsolation == 1
MaxTimeIsolation == 1

\* two Query Identities: different SQL text or different parameter values
TwoQueries == {"q1", "q2"}

\* result sets of the two queries, drawn from the same rows
RowsIsolation == { <<PyInt("1"), PyStr("A")>>, <<PyNone, PyStr("A")>> }

SourcesIsolation == SeqsUpTo(RowsIsolation, MaxRowsIsolation)

\* a deployment one hour west of UTC: a Deleted Row Entry outlives the polls
\* of the hour it was written in and expires within the time modelled
InitIsolation ==
  /\ query_cache = {}
  /\ row_cache = {}
  /\ deleted_rows = {}
  /\ now = 0
  /\ tz = -1
  /\ last_rows = [q \in TwoQueries |-> NoSource]
  /\ ret = NoResult
  /\ db_connection = {"execute_query"}
  /\ cleared = {}
  /\ restarted = FALSE
  /\ calls = NoCalls

\* time passes between two operations
TickIsolation ==
  /\ now < MaxTimeIsolation
  /\ ret = NoResult
  /\ now' = now + 1
  /\ UNCHANGED <<query_cache, row_cache, deleted_rows, tz, last_rows, ret, db_connection, restarted, calls, cleared>>

NextIsolation ==
  \/ \E q \in TwoQueries, src \in SourcesIsolation : process_select(q, src)
  \/ discard_result
  \/ TickIsolation

SpecIsolation == InitIsolation /\ [][NextIsolation]_vars

\* ------------------------------------------------------------------------
\* The Query Identity
\* ------------------------------------------------------------------------
\* SQL texts, among them texts that end like the text of a parameter mapping
SqlTexts == { "SELECT 1", "SELECT 2", "SELECT 1{}", "SELECT 1{'a': 1}" }

ParamNames == { "a", "b" }

ParamValues == { PyInt("1"), PyStr("1"), PyNone }

\* the params argument: absent (None), or a dict given by its items in
\* insertion order, each item a <<name, value>> pair, names distinct
NoParams == [given |-> FALSE, items |-> <<>>]

Dicts ==
  { [given |-> TRUE, items |-> it] :
      it \in { f \in SeqsUpTo(ParamNames \X ParamValues, Cardinality(ParamNames)) :
                 \A i, j \in DOMAIN f : i # j => f[i][1] # f[j][1] } }

Params == { NoParams } \cup Dicts

\* repr() of a scalar
repr(item) ==
  CASE item.t = "int" -> item.s
    [] item.t = "str" -> "'" \o item.s \o "'"
    [] item.t = "NoneType" -> "None"

\* the items of str(dict), joined by ", "
RECURSIVE join_items(_)
join_items(items) ==
  IF Len(items) = 0 THEN ""
  ELSE LET item == repr(PyStr(items[1][1])) \o ": " \o repr(items[1][2])
       IN IF Len(items) = 1 THEN item
          ELSE item \o ", " \o join_items(Tail(items))

\* str(params or {})
str_params_or_empty(params) ==
  IF ~params.given \/ Len(params.items) = 0
    THEN "{}"
    ELSE "{" \o join_items(params.items) \o "}"

\* variant: the identity is the digest of the SQL text alone
get_query_hash_sql_only(sql, params) == md5(sql)

\* _get_query_hash(sql, params)
get_query_hash(sql, params) == md5(sql \o str_params_or_empty(params))

InitQueryHash ==
  /\ query_cache = {}
  /\ row_cache = {}
  /\ deleted_rows = {}
  /\ now = 0
  /\ tz = 0
  /\ last_rows = [q \in QueryHashes |-> NoSource]
  /\ ret = NoResult
  /\ db_connection = {"execute_query"}
  /\ cleared = {}
  /\ restarted = FALSE
  /\ calls = NoCalls

\* one evaluation of _get_query_hash
get_query_hash_call(sql, params) ==
  /\ ret' = [op |-> "_get_query_hash", sql |-> sql, params |-> params,
             query_hash |-> get_query_hash(sql, params)]
  /\ UNCHANGED <<query_cache, row_cache, deleted_rows, now, tz, last_rows, db_connection, restarted, calls, cleared>>

NextQueryHash == \E sql \in SqlTexts, params \in Params : get_query_hash_call(sql, params)

SpecQueryHash == InitQueryHash /\ [][NextQueryHash]_vars

\* ------------------------------------------------------------------------
\* A process that is restarted
\* ------------------------------------------------------------------------
MaxRowsRestart == 1
MaxTimeRestart == 1

SourcesRestart == SeqsUpTo(Rows, MaxRowsRestart)

\* LocalCache(db_connection_class, cache_file, keep_deleted_hours) built by a
\* new process on the cache file of the previous one: __init__ keeps the
\* collaborator it is given and calls _init_cache_db, whose CREATE TABLE IF
\* NOT EXISTS and CREATE INDEX IF NOT EXISTS statements find the tables and
\* indexes there and change nothing
LocalCache_init(db_connection_class) ==
  /\ ret = NoResult
  /\ db_connection' = db_connection_class
  /\ restarted' = TRUE
  /\ ret' = [op |-> "__init__"]
  /\ UNCHANGED <<query_cache, row_cache, deleted_rows, now, tz, last_rows, cleared, calls>>

InitRestart ==
  /\ query_cache = {}
  /\ row_cache = {}
  /\ deleted_rows = {}
  /\ now = 0
  /\ tz = 0
  /\ last_rows = [q \in QueryHashes |-> NoSource]
  /\ ret = NoResult
  /\ db_connection = {"execute_query"}
  /\ cleared = {}
  /\ restarted = FALSE
  /\ calls = NoCalls

\* time passes, while the process runs or while it is down
TickRestart ==
  /\ now < MaxTimeRestart
  /\ ret = NoResult
  /\ now' = now + 1
  /\ UNCHANGED <<query_cache, row_cache, deleted_rows, tz, last_rows, ret, db_connection,
                 cleared, restarted, calls>>

NextRestart ==
  \/ \E q \in QueryHashes, src \in SourcesRestart : process_select(q, src)
  \/ LocalCache_init({"execute_query"})
  \/ discard_result
  \/ TickRestart

SpecRestart == InitRestart /\ [][NextRestart]_vars

\* ------------------------------------------------------------------------
\* Two polled queries, every operation, one call at a time
\* ------------------------------------------------------------------------
MaxRowsSequential == 1
MaxTimeSequential == 1

SourcesSequential == SeqsUpTo(RowsIsolation, MaxRowsSequential)

InitSequential ==
  /\ query_cache = {}
  /\ row_cache = {}
  /\ deleted_rows = {}
  /\ now = 0
  /\ tz = -1
  /\ last_rows = [q \in TwoQueries |-> NoSource]
  /\ ret = NoResult
  /\ db_connection = {"execute_query"}
  /\ cleared = {}
  /\ restarted = FALSE
  /\ calls = NoCalls

\* time passes between two operations
TickSequential ==
  /\ now < MaxTimeSequential
  /\ ret = NoResult
  /\ now' = now + 1
  /\ UNCHANGED <<query_cache, row_cache, deleted_rows, tz, last_rows, ret, db_connection,
                 cleared, restarted, calls>>

NextSequential ==
  \/ \E q \in TwoQueries, src \in SourcesSequential : process_select(q, src)
  \/ \E q \in TwoQueries, src \in SourcesSequential : get_all_data_miss(q, src)
  \/ \E q \in TwoQueries : get_all_data_cached(q)
  \/ \E q \in TwoQueries, h \in HoursAgo : get_deleted_records(q, h)
  \/ get_cache_stats
  \/ cleanup_old_deleted_records
  \/ clear_cache_completely
  \/ discard_result
  \/ TickSequential

SpecSequential == InitSequential /\ [][NextSequential]_vars

\* ------------------------------------------------------------------------
\* Result normalization
\* ------------------------------------------------------------------------
MaxColumns == 2
MaxRowsNormalize == 2

\* column values of a result row
Scalars == { PyInt("1"), PyNone }

\* the values of one row, in column order
ValueTuples == SeqsUpTo(Scalars, MaxColumns)

\* the key a collaborator that returns mappings gives the i-th column
column_name(i) == PyStr("COL" \o ToString(i))

\* Python objects a collaborator returns: None, a tuple, a list or a dict,
\* given by its type and its items in iteration order (a dict's items are
\* <<key, value>> pairs in insertion order)
None == [type |-> "NoneType", items |-> <<>>]

py_tuple(items) == [type |-> "tuple", items |-> items]

py_list(items) == [type |-> "list", items |-> items]

py_dict(values) ==
  [type |-> "dict", items |-> [i \in DOMAIN values |-> <<column_name(i), values[i]>>]]

Representations == { "tuple", "list", "dict" }

\* one row with the given values, in the given representation
row_as(rep, values) ==
  CASE rep = "tuple" -> py_tuple(values)
    [] rep = "list" -> py_list(values)
    [] rep = "dict" -> py_dict(values)

\* a result set: a list of rows that all have the same representation
rows_as(rep, value_rows) ==
  py_list([i \in DOMAIN value_rows |-> row_as(rep, value_rows[i])])

\* what the collaborator's query method may return
Results ==
  { None } \cup
  { py_tuple(values) : values \in ValueTuples } \cup
  { rows_as(rep, value_rows) :
      rep \in Representations, value_rows \in SeqsUpTo(ValueTuples, MaxRowsNormalize) }

\* tuple(obj): the items obj yields when iterated (a dict yields its keys)
tuple(obj) ==
  py_tuple(IF obj.type = "dict"
             THEN [i \in DOMAIN obj.items |-> obj.items[i][1]]
             ELSE obj.items)

\* tuple(row.values())
tuple_of_values(row) == py_tuple([i \in DOMAIN row.items |-> row.items[i][2]])

\* `not result`: None and empty containers are false
falsy(result) == result.type = "NoneType" \/ Len(result.items) = 0

\* variant: a mapping is converted with tuple(row), which yields its keys
ensure_tuple_format_of_keys(result) ==
  IF falsy(result) THEN <<>>
  ELSE IF result.type = "list" THEN
    LET first_item == result.items[1] IN
      CASE first_item.type = "tuple" -> result.items
        [] first_item.type = "list" -> [i \in DOMAIN result.items |-> tuple(result.items[i])]
        [] first_item.type = "dict" -> [i \in DOMAIN result.items |-> tuple(result.items[i])]
        [] OTHER -> <<>>
  ELSE IF result.type = "tuple" THEN << result >>
  ELSE <<>>

\* variant: a row of any other type is converted with tuple(row)
ensure_tuple_format_converting_any(result) ==
  IF falsy(result) THEN <<>>
  ELSE IF result.type = "list" THEN
    LET first_item == result.items[1] IN
      CASE first_item.type = "tuple" -> result.items
        [] first_item.type = "list" -> [i \in DOMAIN result.items |-> tuple(result.items[i])]
        [] first_item.type = "dict" ->
             [i \in DOMAIN result.items |-> tuple_of_values(result.items[i])]
        [] OTHER -> [i \in DOMAIN result.items |-> tuple(result.items[i])]
  ELSE IF result.type = "tuple" THEN << result >>
  ELSE <<>>

\* _ensure_tuple_format(result); the list it returns is given as the sequence
\* of its items
ensure_tuple_format(result) ==
  IF falsy(result) THEN <<>>
  ELSE IF result.type = "list" THEN
    LET first_item == result.items[1] IN
      CASE first_item.type = "tuple" -> result.items
        [] first_item.type = "list" -> [i \in DOMAIN result.items |-> tuple(result.items[i])]
        [] first_item.type = "dict" ->
             [i \in DOMAIN result.items |-> tuple_of_values(result.items[i])]
        [] OTHER -> <<>>
  ELSE IF result.type = "tuple" THEN << result >>
  ELSE <<>>

InitNormalize ==
  /\ query_cache = {}
  /\ row_cache = {}
  /\ deleted_rows = {}
  /\ now = 0
  /\ tz = 0
  /\ last_rows = [q \in QueryHashes |-> NoSource]
  /\ ret = NoResult
  /\ db_connection = {"execute_query"}
  /\ cleared = {}
  /\ restarted = FALSE
  /\ calls = NoCalls

\* one evaluation of _ensure_tuple_format
ensure_tuple_format_call(result) ==
  /\ ret = NoResult
  /\ ret' = [op |-> "_ensure_tuple_format", result |-> result,
             rows |-> ensure_tuple_format(result)]
  /\ UNCHANGED <<query_cache, row_cache, deleted_rows, now, tz, last_rows, db_connection,
                 cleared, restarted, calls>>

NextNormalize ==
  \/ \E result \in Results : ensure_tuple_format_call(result)
  \/ discard_result

SpecNormalize == InitNormalize /\ [][NextNormalize]_vars

\* ------------------------------------------------------------------------
\* Callers whose process_select calls interleave
\* ------------------------------------------------------------------------
MaxRowsInterleaved == 1

SourcesInterleaved == SeqsUpTo(RowsIsolation, MaxRowsInterleaved)

InitInterleaved ==
  /\ query_cache = {}
  /\ row_cache = {}
  /\ deleted_rows = {}
  /\ now = 0
  /\ tz = 0
  /\ last_rows = [q \in QueryHashes |-> NoSource]
  /\ ret = NoResult
  /\ db_connection = {"execute_query"}
  /\ cleared = {}
  /\ restarted = FALSE
  /\ calls = NoCalls

\* the sqlite3 exception of an INSERT INTO row_cache of a (query_hash,
\* row_hash) that is in the table
integrity_error ==
  [type |-> "sqlite3.IntegrityError",
   message |-> "UNIQUE constraint failed: row_cache.query_hash, row_cache.row_hash"]

\* caller p enters process_select: the retention cleanup runs and commits,
\* then _cache_exists reads query_cache
process_select_check(p, query_hash) ==
  /\ calls[p].pc = "idle"
  /\ deleted_rows' = after_cleanup(deleted_rows)
  /\ calls' = [calls EXCEPT ![p] = [pc |-> "checked", q |-> query_hash,
                                    cache_exists |-> cache_exists(query_hash)]]
  /\ UNCHANGED <<query_cache, row_cache, now, tz, last_rows, ret, db_connection,
                 cleared, restarted>>

\* caller p runs the source query, which returns new_data
process_select_execute(p, new_data) ==
  /\ calls[p].pc = "checked"
  /\ has_method(db_connection)
  /\ calls' = [calls EXCEPT ![p] = [pc |-> "executed", q |-> calls[p].q,
                                    cache_exists |-> calls[p].cache_exists,
                                    new_data |-> new_data]]
  /\ last_rows' = [last_rows EXCEPT ![calls[p].q] = Range(new_data)]
  /\ UNCHANGED <<query_cache, row_cache, deleted_rows, now, tz, ret, db_connection,
                 cleared, restarted>>

\* caller p, who found a Query Cache Entry, reads the Active Row Entries of
\* the query into cached_data (a SELECT, which leaves no transaction open)
process_select_read(p) ==
  /\ calls[p].pc = "executed"
  /\ calls[p].cache_exists
  /\ calls' = [calls EXCEPT ![p] = [pc |-> "read", q |-> calls[p].q,
                                    cache_exists |-> TRUE,
                                    new_data |-> calls[p].new_data,
                                    cached_data |-> cached_data_of(calls[p].q)]]
  /\ UNCHANGED <<query_cache, row_cache, deleted_rows, now, tz, last_rows, ret,
                 db_connection, cleared, restarted>>

\* the other callers' calls, none of them the last to have written
not_last(p) ==
  [c \in Callers |->
     IF c # p /\ calls[c].pc = "done"
       THEN [calls[c] EXCEPT !.last_writer = FALSE]
       ELSE calls[c]]

\* caller p, who found no Query Cache Entry, saves its result
\* (_save_to_cache) in one transaction and returns
process_select_write_first(p) ==
  /\ calls[p].pc = "executed"
  /\ ~calls[p].cache_exists
  /\ LET query_hash == calls[p].q
         new_data == calls[p].new_data
         data_by_hash == new_data_by_hash_of(new_data)
     IN /\ query_cache' = save_query_cache(query_cache, query_hash, data_by_hash)
        /\ row_cache' = save_row_cache(row_cache, query_hash, data_by_hash)
        /\ calls' = [not_last(p) EXCEPT ![p] =
                       [pc |-> "done", q |-> query_hash, new_data |-> new_data,
                        added |-> new_data, removed |-> <<>>, cache_hit |-> FALSE,
                        last_writer |-> TRUE]]
  /\ UNCHANGED <<deleted_rows, now, tz, last_rows, ret, db_connection, cleared, restarted>>

\* caller p, who found a Query Cache Entry, writes the delta it computed
\* from the rows it read (_move_to_deleted, _update_cache) in one
\* transaction and returns; when an added row is in row_cache by now, the
\* INSERT fails, the transaction is rolled back and the exception is raised
process_select_write_hit(p) ==
  /\ calls[p].pc = "read"
  /\ LET query_hash == calls[p].q
         new_data == calls[p].new_data
         data_by_hash == new_data_by_hash_of(new_data)
         new_hashes == new_hashes_of(new_data)
         cached_data == calls[p].cached_data
         cached_hashes == DOMAIN cached_data
         added_hashes == new_hashes \ cached_hashes
         removed_hashes == cached_hashes \ new_hashes
         dr == IF removed_hashes # {}
                 THEN move_deleted_rows(deleted_rows, query_hash, removed_hashes, cached_data)
                 ELSE deleted_rows
         rc == IF removed_hashes # {}
                 THEN move_row_cache(row_cache, query_hash, removed_hashes)
                 ELSE row_cache
         qc == update_query_cache(query_cache, query_hash, data_by_hash)
         committed == <<query_cache, row_cache, deleted_rows>>
     IN IF \E r \in rc : r.query_hash = query_hash /\ r.row_hash \in added_hashes
          THEN LET kept == rollback(committed, <<qc, rc, dr>>) IN
                 /\ query_cache' = kept[1]
                 /\ row_cache' = kept[2]
                 /\ deleted_rows' = kept[3]
                 /\ calls' = [calls EXCEPT ![p] =
                                [pc |-> "raised", q |-> query_hash, new_data |-> new_data,
                                 error |-> integrity_error]]
          ELSE /\ query_cache' = qc
               /\ row_cache' = update_row_cache(rc, query_hash, data_by_hash, added_hashes)
               /\ deleted_rows' = dr
               /\ \E ao \in Orderings(added_hashes), ro \in Orderings(removed_hashes) :
                    calls' = [not_last(p) EXCEPT ![p] =
                                [pc |-> "done", q |-> query_hash, new_data |-> new_data,
                                 added |-> [i \in DOMAIN ao |-> data_by_hash[ao[i]]],
                                 removed |-> [i \in DOMAIN ro |-> cached_data[ro[i]]],
                                 cache_hit |-> TRUE, last_writer |-> TRUE]]
  /\ UNCHANGED <<now, tz, last_rows, ret, db_connection, cleared, restarted>>

\* caller p is done with the result or the exception of its call
process_select_leave(p) ==
  /\ calls[p].pc \in {"done", "raised"}
  /\ calls' = [calls EXCEPT ![p] = Idle]
  /\ UNCHANGED <<query_cache, row_cache, deleted_rows, now, tz, last_rows, ret,
                 db_connection, cleared, restarted>>

NextInterleaved ==
  \/ \E p \in Callers, q \in QueryHashes : process_select_check(p, q)
  \/ \E p \in Callers, src \in SourcesInterleaved : process_select_execute(p, src)
  \/ \E p \in Callers : process_select_read(p)
  \/ \E p \in Callers : process_select_write_first(p)
  \/ \E p \in Callers : process_select_write_hit(p)
  \/ \E p \in Callers : process_select_leave(p)

SpecInterleaved == InitInterleaved /\ [][NextInterleaved]_vars

\* ------------------------------------------------------------------------
\* Collaborators exposing any of the probed methods
\* ------------------------------------------------------------------------
MaxRowsProbe == 1

SourcesProbe == SeqsUpTo(RowsIsolation, MaxRowsProbe)

SqlTextsProbe == { "SELECT 1", "SELECT 2" }

ParamsProbe == { NoParams, [given |-> TRUE, items |-> <<>>] }

\* a collaborator exposes any subset of the probed method names
CollaboratorsProbe == SUBSET Range(Capabilities)

\* the if/elif chain of hasattr tests: the last name in the probing order that is present
probed_method_lowest(conn) ==
  Capabilities[CHOOSE i \in DOMAIN Capabilities :
                 /\ Capabilities[i] \in conn
                 /\ \A j \in DOMAIN Capabilities : j > i => Capabilities[j] \notin conn]

\* the if/elif chain of hasattr tests: the first name in the probing order that is present
probed_method(conn) ==
  Capabilities[CHOOSE i \in DOMAIN Capabilities :
                 /\ Capabilities[i] \in conn
                 /\ \A j \in DOMAIN Capabilities : j < i => Capabilities[j] \notin conn]

\* the calls _execute_on_database makes on the collaborator
invocations(conn, sql, params) ==
  IF has_method(conn)
  THEN << [method |-> probed_method(conn), sql |-> sql, params |-> params] >>
  ELSE << >>

InitProbe ==
  /\ query_cache = {}
  /\ row_cache = {}
  /\ deleted_rows = {}
  /\ now = 0
  /\ tz = 0
  /\ last_rows = [q \in QueryHashes |-> NoSource]
  /\ ret = NoResult
  /\ db_connection \in CollaboratorsProbe
  /\ cleared = {}
  /\ restarted = FALSE
  /\ calls = NoCalls

\* _execute_on_database: the invoked method returns rows
execute_on_database(sql, params, result) ==
  /\ ret = NoResult
  /\ has_method(db_connection)
  /\ ret' = [op |-> "_execute_on_database", raised |-> FALSE,
             invoked |-> invocations(db_connection, sql, params), rows |-> result]
  /\ UNCHANGED <<query_cache, row_cache, deleted_rows, now, tz, last_rows, db_connection,
                 cleared, restarted, calls>>

\* _execute_on_database: the invoked method raises
execute_on_database_fails(sql, params, e) ==
  /\ ret = NoResult
  /\ has_method(db_connection)
  /\ ret' = [op |-> "_execute_on_database", raised |-> TRUE,
             invoked |-> invocations(db_connection, sql, params), error |-> execute_error(e)]
  /\ UNCHANGED <<query_cache, row_cache, deleted_rows, now, tz, last_rows, db_connection,
                 cleared, restarted, calls>>

\* _execute_on_database: no probed method is present
execute_on_database_no_method(sql, params) ==
  /\ ret = NoResult
  /\ ~has_method(db_connection)
  /\ ret' = [op |-> "_execute_on_database", raised |-> TRUE,
             invoked |-> invocations(db_connection, sql, params),
             error |-> execute_error(no_method_message)]
  /\ UNCHANGED <<query_cache, row_cache, deleted_rows, now, tz, last_rows, db_connection,
                 cleared, restarted, calls>>

NextProbe ==
  \/ \E sql \in SqlTextsProbe, params \in ParamsProbe, result \in SourcesProbe :
       execute_on_database(sql, params, result)
  \/ \E sql \in SqlTextsProbe, params \in ParamsProbe, e \in SourceErrors :
       execute_on_database_fails(sql, params, e)
  \/ \E sql \in SqlTextsProbe, params \in ParamsProbe : execute_on_database_no_method(sql, params)
  \/ discard_result

SpecProbe == InitProbe /\ [][NextProbe]_vars

\* ------------------------------------------------------------------------
\* The cache file name derived from the collaborator
\* ------------------------------------------------------------------------
\* for attr in common_attrs (the first three of the seven names, in their order)
common_attrs == <<"username", "user", "dsn">>

\* an attribute value: falsy (the empty string) or truthy
AttrValues == { "", "scott" }

\* the class of the collaborator: any class exposing a probed method
ClassNames == { "Source", "Database" }

\* a collaborator object: its class and the attributes it has; the classes
\* inherit __repr__ from object
ConnectionObjects ==
  { [class |-> c, attrs |-> a] :
      c \in ClassNames,
      a \in UNION { [S -> AttrValues] : S \in SUBSET Range(common_attrs) } }

\* where a process lifetime places the collaborator object in memory
Addresses == { "0x7f62b5b9f490", "0x7feea80f7490" }

\* object.__repr__
object_repr(conn, address) == "<" \o conn.class \o " object at " \o address \o ">"

\* the loop over common_attrs: hasattr, truthy value, f"{attr}={value}"
RECURSIVE connection_info_of(_, _)
connection_info_of(conn, attrs) ==
  IF Len(attrs) = 0 THEN << >>
  ELSE LET attr == attrs[1]
           rest == connection_info_of(conn, Tail(attrs))
       IN IF attr \in DOMAIN conn.attrs /\ conn.attrs[attr] # ""
            THEN << PyStr(attr \o "=" \o conn.attrs[attr]) >> \o rest
            ELSE rest

\* _generate_persistent_cache_name; the first eight digits of the digest are a
\* function of the digest
generate_persistent_cache_name(conn, address) ==
  LET found == connection_info_of(conn, common_attrs)
      connection_info == IF Len(found) = 0 THEN << PyStr(object_repr(conn, address)) >>
                         ELSE found
      connection_hash == md5(join(connection_info))
  IN "cache_" \o conn.class \o "_" \o connection_hash \o ".db"

InitCacheName ==
  /\ query_cache = {}
  /\ row_cache = {}
  /\ deleted_rows = {}
  /\ now = 0
  /\ tz = 0
  /\ last_rows = [q \in QueryHashes |-> NoSource]
  /\ ret = NoResult
  /\ db_connection = {"execute_query"}
  /\ cleared = {}
  /\ restarted = FALSE
  /\ calls = NoCalls

\* one process lifetime: the collaborator is constructed and LocalCache(conn)
\* derives its cache file
generate_persistent_cache_name_call(conn, address) ==
  /\ ret' = [op |-> "_generate_persistent_cache_name", collaborator |-> conn,
             address |-> address,
             cache_file |-> generate_persistent_cache_name(conn, address)]
  /\ UNCHANGED <<query_cache, row_cache, deleted_rows, now, tz, last_rows, db_connection,
                 cleared, restarted, calls>>

NextCacheName ==
  \E conn \in ConnectionObjects, address \in Addresses :
    generate_persistent_cache_name_call(conn, address)

SpecCacheName == InitCacheName /\ [][NextCacheName]_vars

\* ------------------------------------------------------------------------
\* A caller that keeps the rows it was given, over values of every type
\* ------------------------------------------------------------------------
MaxRowsRoundTrip == 2

\* rows over int, float, bool, str, None and datetime values
RowsRoundTrip ==
  { <<PyInt("1"), PyStr("A")>>,
    <<PyFloat("1.0"), PyStr("A")>>,
    <<PyFloat("nan"), PyStr("A")>>,
    <<PyBool("True"), PyNone>>,
    <<PyDatetime("2020-01-01 00:00:00"), PyStr("A")>> }

SourcesRoundTrip == SeqsUpTo(RowsRoundTrip, MaxRowsRoundTrip)

\* json.dumps has an encoding for the value (JSONEncoder.default raises
\* TypeError for any other type)
serializable(item) == item.t \in {"int", "float", "bool", "str", "NoneType"}

\* the rows a process_select passes to json.dumps: every distinct row on a
\* first run (_save_to_cache), the added rows on a cache hit (_update_cache)
rows_to_store(query_hash, new_data) ==
  LET data_by_hash == new_data_by_hash_of(new_data)
  IN IF cache_exists(query_hash)
       THEN { data_by_hash[h] : h \in new_hashes_of(new_data) \ cached_hashes_of(query_hash) }
       ELSE { data_by_hash[h] : h \in new_hashes_of(new_data) }

can_store(rows) == \A row \in rows : \A i \in DOMAIN row : serializable(row[i])

type_error(item) ==
  [type |-> "TypeError",
   message |-> "Object of type " \o item.t \o " is not JSON serializable"]

\* Python ==: a float NaN is equal to no value, itself included
py_eq(a, b) == a = b /\ ~(a.t = "float" /\ a.s = "nan")

\* tuple == tuple for two tuple objects that share no item object
rows_equal(r1, r2) ==
  /\ Len(r1) = Len(r2)
  /\ \A i \in DOMAIN r1 : py_eq(r1[i], r2[i])

\* the caller between two calls, holding the rows it was given in `added`
Holding(rows) == [pc |-> "idle", received |-> rows]

InitRoundTrip ==
  /\ query_cache = {}
  /\ row_cache = {}
  /\ deleted_rows = {}
  /\ now = 0
  /\ tz = 0
  /\ last_rows = [q \in QueryHashes |-> NoSource]
  /\ ret = NoResult
  /\ db_connection = {"execute_query"}
  /\ cleared = {}
  /\ restarted = FALSE
  /\ calls = [p \in Callers |-> Holding({})]

\* process_select whose rows to store all have a JSON encoding
process_select_storing(query_hash, new_data) ==
  /\ can_store(rows_to_store(query_hash, new_data))
  /\ process_select(query_hash, new_data)

\* process_select with a row to store that has no JSON encoding: json.dumps
\* raises inside the write transaction, which is rolled back; the purge of
\* expired Deleted Row Entries was committed before
process_select_not_serializable(query_hash, new_data) ==
  /\ ret = NoResult
  /\ has_method(db_connection)
  /\ ~can_store(rows_to_store(query_hash, new_data))
  /\ deleted_rows' = after_cleanup(deleted_rows)
  /\ \E row \in rows_to_store(query_hash, new_data) :
       \E i \in DOMAIN row :
         /\ ~serializable(row[i])
         /\ ret' = [op |-> "raise", call |-> "process_select", q |-> query_hash,
                    at |-> "process_select", error |-> type_error(row[i])]
  /\ UNCHANGED <<query_cache, row_cache, now, tz, last_rows, db_connection, restarted,
                 calls, cleared>>

\* the caller takes the rows of result['added'] of a process_select, or is done
\* with the result of another call, and goes on
caller_keeps_added ==
  /\ ret # NoResult
  /\ calls' = [calls EXCEPT ![1] =
                 Holding(calls[1].received \cup
                           (IF ret.op = "process_select" THEN Range(ret.added) ELSE {}))]
  /\ ret' = NoResult
  /\ UNCHANGED <<query_cache, row_cache, deleted_rows, now, tz, last_rows, db_connection,
                 cleared, restarted>>

NextRoundTrip ==
  \/ \E q \in QueryHashes, new_data \in SourcesRoundTrip : process_select_storing(q, new_data)
  \/ \E q \in QueryHashes, new_data \in SourcesRoundTrip :
       process_select_not_serializable(q, new_data)
  \/ \E q \in QueryHashes : get_all_data_cached(q)
  \/ \E q \in QueryHashes : get_deleted_records(q, <<>>)
  \/ caller_keeps_added

SpecRoundTrip == InitRoundTrip /\ [][NextRoundTrip]_vars

\* ------------------------------------------------------------------------
\* A caller that notes when it was told a row was removed
\* ------------------------------------------------------------------------
MaxRowsRemoval == 1
MaxTimeRemoval == 2

SourcesRemoval == SeqsUpTo(RowsIsolation, MaxRowsRemoval)

\* the caller between two calls, holding (row, hour) for every row it was
\* given in `removed`
Noting(removals) == [pc |-> "idle", removed_at |-> removals]

InitRemoval ==
  /\ query_cache = {}
  /\ row_cache = {}
  /\ deleted_rows = {}
  /\ now = 0
  /\ tz \in TzOffsets
  /\ last_rows = [q \in QueryHashes |-> NoSource]
  /\ ret = NoResult
  /\ db_connection = {"execute_query"}
  /\ cleared = {}
  /\ restarted = FALSE
  /\ calls = [p \in Callers |-> Noting({})]

\* the caller notes the rows of result['removed'] of a process_select and goes on
caller_notes_removed ==
  /\ ret # NoResult
  /\ calls' = [calls EXCEPT ![1] =
                 Noting(calls[1].removed_at \cup
                          (IF ret.op = "process_select"
                             THEN { <<row, now>> : row \in Range(ret.removed) }
                             ELSE {}))]
  /\ ret' = NoResult
  /\ UNCHANGED <<query_cache, row_cache, deleted_rows, now, tz, last_rows, db_connection,
                 cleared, restarted>>

TickRemoval ==
  /\ now < MaxTimeRemoval
  /\ ret = NoResult
  /\ now' = now + 1
  /\ UNCHANGED <<query_cache, row_cache, deleted_rows, tz, last_rows, ret, db_connection,
                 cleared, restarted, calls>>

NextRemoval ==
  \/ \E q \in QueryHashes, new_data \in SourcesRemoval : process_select(q, new_data)
  \/ caller_notes_removed
  \/ TickRemoval

SpecRemoval == InitRemoval /\ [][NextRemoval]_vars

\* ------------------------------------------------------------------------
\* A collaborator that returns rows as tuples or as objects of another type
\* ------------------------------------------------------------------------
MaxRowsUnrecognized == 1
MaxTimeUnrecognized == 1

\* a row object that is neither a tuple, a list nor a dict (a driver's Row class)
py_object(values) == [type |-> "Row", items |-> values]

\* non-empty results whose rows are tuples
TupleResults ==
  { py_list([i \in DOMAIN rows |-> py_tuple(rows[i])]) :
      rows \in SeqsUpTo(Rows, MaxRowsUnrecognized) \ { <<>> } }

\* non-empty results whose rows are objects of the other type
UnrecognizedResults ==
  { py_list([i \in DOMAIN rows |-> py_object(rows[i])]) :
      rows \in SeqsUpTo(Rows, MaxRowsUnrecognized) \ { <<>> } }

\* the rows process_select works on: the values of the tuples of new_data
rows_of(tuples) == [i \in DOMAIN tuples |-> tuples[i].items]

InitUnrecognized ==
  /\ query_cache = {}
  /\ row_cache = {}
  /\ deleted_rows = {}
  /\ now = 0
  /\ tz \in TzOffsets
  /\ last_rows = [q \in QueryHashes |-> NoSource]
  /\ ret = NoResult
  /\ db_connection = {"execute_query"}
  /\ cleared = {}
  /\ restarted = FALSE
  /\ calls = NoCalls

\* process_select whose collaborator returns `result`:
\* new_data = self._execute_on_database(sql, params), which ends with
\* return self._ensure_tuple_format(result)
process_select_returning(query_hash, result) ==
  process_select(query_hash, rows_of(ensure_tuple_format(result)))

TickUnrecognized ==
  /\ now < MaxTimeUnrecognized
  /\ ret = NoResult
  /\ now' = now + 1
  /\ UNCHANGED <<query_cache, row_cache, deleted_rows, tz, last_rows, ret, db_connection,
                 cleared, restarted, calls>>

NextUnrecognized ==
  \/ \E q \in QueryHashes, result \in TupleResults \cup UnrecognizedResults :
       process_select_returning(q, result)
  \/ discard_result
  \/ TickUnrecognized

SpecUnrecognized == InitUnrecognized /\ [][NextUnrecognized]_vars

\* ------------------------------------------------------------------------
\* The integration loop: poll, process every delivered row, clear once a day
\* ------------------------------------------------------------------------
MaxRowsIntegration == 2
MaxTimeIntegration == 1

SourcesIntegration == SeqsUpTo(Rows, MaxRowsIntegration)

\* the one query the integration polls (script)
script == "q1"

\* the loop between two steps; `failed` holds the delivered rows whose
\* processing raised since the last clear and that every poll since has found
\* in the source
Integrating(failed) == [pc |-> "idle", failed |-> failed]

\* the module body: LocalCache(sc_db) and clear_cache_completely() on start
InitIntegration ==
  /\ query_cache = {}
  /\ row_cache = {}
  /\ deleted_rows = {}
  /\ now = 0
  /\ tz = 0
  /\ last_rows = [q \in QueryHashes |-> NoSource]
  /\ ret = NoResult
  /\ db_connection = {"execute_query"}
  /\ cleared = {}
  /\ restarted = FALSE
  /\ calls = [p \in Callers |-> Integrating({})]

\* main(), first statement: result = local_cache.process_select(script)
main_process_select(new_data) == process_select(script, new_data)

\* main(), the loop over result["data"]: the processing of each row returns or
\* raises; an exception is reported and the loop continues with the next row
main_process_rows(raising) ==
  /\ ret # NoResult
  /\ ret.op = "process_select"
  /\ raising \subseteq Range(ret.data)
  /\ calls' = [calls EXCEPT ![1] =
                 Integrating((calls[1].failed \cap last_rows[script]) \cup raising)]
  /\ ret' = NoResult
  /\ UNCHANGED <<query_cache, row_cache, deleted_rows, now, tz, last_rows, db_connection,
                 cleared, restarted>>

\* schedule.every().day.at("04:00").do(process_all_users), run by
\* schedule.run_pending() before main()
process_all_users == clear_cache_completely

\* process_all_users returns: the result of the clear is dropped, and no row
\* that raised before the clear counts any more
process_all_users_returns ==
  /\ ret # NoResult
  /\ ret.op = "clear"
  /\ calls' = [calls EXCEPT ![1] = Integrating({})]
  /\ ret' = NoResult
  /\ UNCHANGED <<query_cache, row_cache, deleted_rows, now, tz, last_rows, db_connection,
                 cleared, restarted>>

TickIntegration ==
  /\ now < MaxTimeIntegration
  /\ ret = NoResult
  /\ now' = now + 1
  /\ UNCHANGED <<query_cache, row_cache, deleted_rows, tz, last_rows, ret, db_connection,
                 cleared, restarted, calls>>

NextIntegration ==
  \/ \E new_data \in SourcesIntegration : main_process_select(new_data)
  \/ \E raising \in SUBSET Rows : main_process_rows(raising)
  \/ process_all_users
  \/ process_all_users_returns
  \/ TickIntegration

SpecIntegration == InitIntegration /\ [][NextIntegration]_vars

\* ------------------------------------------------------------------------
\* Properties
\* ------------------------------------------------------------------------

\* the rows held by the Active Row Entries of a query
active_rows(query_hash) == { json_loads(r.row_data) : r \in cached_rows(query_hash) }

\* the Deleted Row Entries of a query
deleted_of(query_hash) == { d \in deleted_rows : d.query_hash = query_hash }

\* how many times x occurs in a list
Count(seq, x) == Cardinality({ i \in DOMAIN seq : seq[i] = x })

\* two rows of the same shape that differ in exactly one column value
differ_in_one_column(a, b) ==
  /\ Len(a) = Len(b)
  /\ Cardinality({ i \in DOMAIN a : a[i] # b[i] }) = 1

\* real time elapsed since a Deleted Row Entry was stamped (it was stamped
\* with the local clock, now + tz, of the moment of the deletion)
real_age(d) == now - (d.deleted_at - tz)

\* C1: on every cache-hit process_select, `added` is exactly the set of rows
\* of the current source result whose row identity was not in the previous
\* source result of that query.
C1_AddedIsNewRows ==
  [][ \A q \in QueryHashes, src \in Sources :
        process_select_hit(q, src) =>
          Range(ret'.added) =
            { r \in Range(src) :
                get_row_hash(r) \notin { get_row_hash(p) : p \in last_rows[q] } } ]_vars

\* C2: on every cache-hit process_select, `removed` is exactly the set of rows
\* of the previous source result that are absent from the current one, and
\* each of them is no longer Active and has a Deleted Row Entry (what
\* get_deleted_records reads) with a deletion timestamp.
C2_RemovedIsGoneRows ==
  [][ \A q \in QueryHashes, src \in Sources :
        process_select_hit(q, src) =>
          LET gone == last_rows[q] \ Range(src) IN
            /\ Range(ret'.removed) = gone
            /\ \A r \in gone :
                 /\ r \notin active_rows(q)'
                 /\ \E d \in deleted_rows' :
                      /\ d.query_hash = q
                      /\ json_loads(d.row_data) = r
                      /\ d.deleted_at = local_now ]_vars

\* C3: a process_select on a query without Query Cache Entry reports every
\* source row as added, none as removed, cache_hit = false, and stores a
\* Query Cache Entry and one Active Row Entry per row (also for an empty
\* result).
C3_FirstRun ==
  [][ \A q \in QueryHashes, src \in Sources :
        process_select_first(q, src) =>
          /\ ret'.added = src
          /\ ret'.removed = <<>>
          /\ ret'.cache_hit = FALSE
          /\ cache_exists(q)'
          /\ active_rows(q)' = Range(src)
          /\ Cardinality(cached_rows(q)') = Cardinality(Range(src)) ]_vars

\* C4 (as stated): a process_select with an unchanged source result returns
\* empty added and removed, cache_hit = true, and leaves the Active and the
\* Deleted Row Entries of the query unchanged.  Stated for a deployment whose
\* local clock is UTC, where deletion stamps and expiry use the same clock.
C4_UnchangedSourceNoEffect ==
  [][ \A q \in QueryHashes, src \in Sources :
        (tz = 0 /\ process_select_hit(q, src) /\ Range(src) = last_rows[q]) =>
          /\ ret'.added = <<>>
          /\ ret'.removed = <<>>
          /\ ret'.cache_hit = TRUE
          /\ cached_rows(q)' = cached_rows(q)
          /\ deleted_of(q)' = deleted_of(q) ]_vars

\* C4 (amended): a process_select with an unchanged source result returns
\* empty added and removed, cache_hit = true, leaves the Active Row Entries
\* of the query unchanged, and changes its Deleted Row Entries only by
\* purging the expired ones.  (A step that leaves the clock alone and ends
\* with ret.op = "process_select" is a process_select call; same_source
\* records that its source result had the rows of the previous one.)
C4_UnchangedSourceOnlyPurges ==
  [][ (/\ now' = now
       /\ ret'.op = "process_select"
       /\ ret'.cache_hit
       /\ ret'.same_source) =>
        /\ ret'.added = <<>>
        /\ ret'.removed = <<>>
        /\ \A q \in QueryHashes :
             ret'.q = q =>
               /\ cached_rows(q)' = cached_rows(q)
               /\ deleted_of(q)' = after_cleanup(deleted_of(q)) ]_vars

\* a repeated poll of a non-empty, unchanged source has returned, with
\* Deleted Row Entries still in the store
C4_Witness ==
  /\ ret.op = "process_select"
  /\ ret.same_source
  /\ ret.cache_hit
  /\ ret.total_new > 0
  /\ now > 0
  /\ deleted_of(ret.q) # {}

\* C5: when one row of the previous result changes in exactly one column
\* value (everything else identical), the next process_select reports the old
\* content once in removed and the new content once in added.
C5_ContentChangeIsAddRemove ==
  [][ \A q \in QueryHashes, src \in Sources :
        process_select_hit(q, src) =>
          \A old \in last_rows[q], new \in Range(src) :
            ( /\ old \notin Range(src)
              /\ new \notin last_rows[q]
              /\ differ_in_one_column(old, new)
              /\ Range(src) \ {new} = last_rows[q] \ {old} )
            => /\ Count(ret'.removed, old) = 1
               /\ Count(ret'.added, new) = 1 ]_vars

\* C6: no (query, row identity) pair is at once an Active Row Entry and a
\* Deleted Row Entry.
C6_ActiveNotDeleted ==
  \A r \in row_cache, d \in deleted_rows :
    ~(r.query_hash = d.query_hash /\ r.row_hash = d.row_hash)

\* C7: after a process_select the Active Row Entries of the query hold
\* exactly the distinct rows of that call's source result, and get_all_data on
\* a cached query returns exactly the stored rows without querying the source.
C7_ActiveIsLastResult ==
  /\ ret.op = "process_select" => active_rows(ret.q) = last_rows[ret.q]
  /\ (ret.op = "get_all_data" /\ cache_exists(ret.q)) =>
       /\ Range(ret.data) = active_rows(ret.q)
       /\ Len(ret.data) = Cardinality(cached_rows(ret.q))
       /\ ~ret.executed

\* C8: get_all_data, get_deleted_records and get_cache_stats never write the
\* tables; on a query without Query Cache Entry get_all_data returns the raw
\* source result and the query still has no entry afterwards, so the next
\* process_select on it is a first run.
C8_ReadsDoNotWrite ==
  [][ (now' = now /\ ret'.op \in {"get_all_data", "get_deleted_records", "get_cache_stats"}) =>
        /\ \A q \in QueryHashes, src \in Sources :
             get_all_data_miss(q, src) =>
               /\ tables' = tables
               /\ ret'.data = src
               /\ ret'.executed
               /\ ~cache_exists(q)'
        /\ \A q \in QueryHashes : get_all_data_cached(q) => tables' = tables
        /\ \A q \in QueryHashes, h \in HoursAgo :
             get_deleted_records(q, h) => tables' = tables
        /\ get_cache_stats => tables' = tables ]_vars

\* get_all_data has run the source query for a query that has no entry and
\* returned its rows; the stores are still empty of that query
C8_Witness ==
  /\ ret.op = "get_all_data"
  /\ ret.executed
  /\ ret.data # <<>>
  /\ ~cache_exists(ret.q)
  /\ cached_rows(ret.q) = {}

\* C9: get_deleted_records() without hours_ago returns no Deleted Row Entry
\* whose deletion timestamp is older than the retention window.
C9_NoExpiredInDeletedRecords ==
  [][ \A q \in QueryHashes :
        get_deleted_records(q, <<>>) =>
          \A i \in DOMAIN ret'.data :
            ~(ret'.data[i].deleted_at < sqlite_now - keep_deleted_hours) ]_vars

\* C10: a cleanup removes every Deleted Row Entry deleted more than
\* keep_deleted_hours ago and none deleted less than keep_deleted_hours ago,
\* the age being the real time since the deletion was recorded.
C10_CleanupByRealAge ==
  [][ cleanup_old_deleted_records =>
        \A d \in deleted_rows :
          /\ real_age(d) > keep_deleted_hours => d \notin deleted_rows'
          /\ real_age(d) < keep_deleted_hours => d \in deleted_rows' ]_vars

\* a step in which a process_select call returns or raises
process_select_ended ==
  /\ now' = now
  /\ \/ ret'.op = "process_select"
     \/ ret'.op = "raise" /\ ret'.call = "process_select"

\* C11: after any process_select call whose cleanup statement ran (first run,
\* cache hit, or a call whose source query fails) the store holds no Deleted
\* Row Entry that was deleted more than keep_deleted_hours ago.
C11_NoExpiredAfterProcessSelect ==
  [][ (process_select_ended
        /\ ~(ret'.op = "raise" /\ ret'.at = "_cleanup_old_deleted_records")) =>
        \A d \in deleted_rows' : ~(real_age(d) > keep_deleted_hours) ]_vars

\* SELECT COUNT(*) over the three tables, summed
total_count == Cardinality(row_cache) + Cardinality(deleted_rows) + Cardinality(query_cache)

\* C12: a clear_cache_completely that no other writer interferes with leaves
\* the three tables empty and returns true; every clear_cache_completely
\* returns true exactly when the three tables hold no row when it returns;
\* and get_cache_stats on the emptied store reports zero total_queries,
\* total_active_rows and total_deleted_rows.
C12_ClearEmptiesStore ==
  [][ /\ clear_cache_completely =>
           /\ query_cache' = {} /\ row_cache' = {} /\ deleted_rows' = {}
           /\ ret'.ok
      /\ (now' = now /\ ret'.op = "clear") => (ret'.ok <=> total_count' = 0)
      /\ (get_cache_stats /\ total_count = 0) =>
           /\ ret'.total_queries = 0
           /\ ret'.total_active_rows = 0
           /\ ret'.total_deleted_rows = 0 ]_vars

\* statistics have been read after a clear that wiped a cached query, and
\* they report an empty store
C12_Witness ==
  /\ ret.op = "get_cache_stats"
  /\ cleared # {}
  /\ ret.total_queries = 0
  /\ ret.total_active_rows = 0
  /\ ret.total_deleted_rows = 0

\* C13: the first process_select on a query after a clear_cache_completely
\* that wiped its entry is a first run: cache_hit = false, `added` holds every
\* row of the source result, `removed` is empty, and no Deleted Row Entry of
\* the query appears (rows that vanished meanwhile are not reported).
C13_ClearForcesResync ==
  [][ \A q \in QueryHashes :
        ( /\ now' = now
          /\ ret'.op = "process_select"
          /\ ret'.q = q
          /\ q \in cleared
          /\ last_rows[q] = NoSource ) =>
          /\ ~ret'.cache_hit
          /\ Range(ret'.added) = last_rows'[q]
          /\ Len(ret'.added) = ret'.total_new
          /\ ret'.removed = <<>>
          /\ deleted_of(q)' = {}
          /\ cache_exists(q)' ]_vars

\* a query that was cached with rows and then cleared has been polled again:
\* its rows came back as added on a first run
C13_Witness ==
  /\ ret.op = "process_select"
  /\ ret.after_clear
  /\ ~ret.cache_hit
  /\ ret.added # <<>>

\* a step in which a clear_cache_completely call returns or raises
clear_ended ==
  /\ now' = now
  /\ \/ ret'.op = "clear"
     \/ ret'.op = "raise" /\ ret'.call = "clear_cache_completely"

\* C14: a clear_cache_completely whose verification finds rows left in any of
\* the three tables raises a ConsistencyError instead of returning.
C14_ResidualRowsRaise ==
  [][ (clear_ended /\ total_count' > 0) =>
        /\ ret'.op = "raise"
        /\ ret'.error.type = "ConsistencyError" ]_vars

\* the Query Cache Entry of a query (a set of at most one row)
query_entry(query_hash) == { e \in query_cache : e.query_hash = query_hash }

\* what a process_select of new_data on the query would find now: whether the
\* query is cached, and the identities it would report as added and removed
pending_delta(query_hash, new_data) ==
  [cache_hit |-> cache_exists(query_hash),
   added_hashes |-> new_hashes_of(new_data) \ cached_hashes_of(query_hash),
   removed_hashes |-> cached_hashes_of(query_hash) \ new_hashes_of(new_data)]

\* C15: a process_select on query q1 leaves the Query Cache Entry and the
\* Active Row Entries of any other query q2 unchanged, changes q2's Deleted
\* Row Entries only by purging the expired ones, returns only rows of q1's
\* source result as added and only rows that were Active for q1 as removed,
\* and leaves the delta any next poll of q2 would compute unchanged.
C15_QueryIsolation ==
  [][ \A q1, q2 \in TwoQueries :
        ( /\ q1 # q2
          /\ now' = now
          /\ ret'.op = "process_select"
          /\ ret'.q = q1 ) =>
          /\ query_entry(q2)' = query_entry(q2)
          /\ cached_rows(q2)' = cached_rows(q2)
          /\ deleted_of(q2)' = after_cleanup(deleted_of(q2))
          /\ Range(ret'.added) \subseteq last_rows'[q1]
          /\ Range(ret'.removed) \subseteq active_rows(q1)
          /\ \A d \in deleted_of(q1)' \ deleted_of(q1) :
               json_loads(d.row_data) \in active_rows(q1)
          /\ \A src \in SourcesIsolation :
               pending_delta(q2, src)' = pending_delta(q2, src) ]_vars

\* q1 and q2 returned the same row; q1 has now lost it and reported it as
\* removed, while q2 still holds it as an Active Row Entry and has no Deleted
\* Row Entry
C15_Witness ==
  /\ ret.op = "process_select"
  /\ ret.q = "q1"
  /\ ret.removed # <<>>
  /\ Range(ret.removed) \subseteq active_rows("q2")
  /\ deleted_of("q2") = {}
  /\ deleted_of("q1") # {}

\* the parameter values of a call, in order: none when params is absent or an
\* empty mapping
parameter_values(params) == IF params.given THEN params.items ELSE <<>>

\* C16: two evaluations of _get_query_hash give the same Query Identity
\* exactly when they have the same SQL text and the same parameter names and
\* values in the same order.
C16_QueryIdentity ==
  [][ (ret.op = "_get_query_hash" /\ ret'.op = "_get_query_hash") =>
        ( ret'.query_hash = ret.query_hash
          <=> /\ ret'.sql = ret.sql
              /\ parameter_values(ret'.params) = parameter_values(ret.params) ) ]_vars

\* an identity has been computed for a query with two parameters
C16_Witness ==
  /\ ret.op = "_get_query_hash"
  /\ ret.params.given
  /\ Len(ret.params.items) = 2
  /\ ret.query_hash = get_query_hash(ret.sql, ret.params)

\* the text s ends with the text t
ends_with(s, t) ==
  /\ Len(s) >= Len(t)
  /\ SubSeq(s, Len(s) - Len(t) + 1, Len(s)) = t

\* C17: when the source query of a process_select raises, the call raises an
\* error whose message carries the original message, and the query_cache and
\* row_cache tables are as before the call; a query without Query Cache Entry
\* still has none.
C17_SourceFailureWritesNothing ==
  [][ \A q \in QueryHashes, e \in SourceErrors :
        process_select_source_fails(q, e) =>
          /\ ret'.op = "raise"
          /\ ends_with(ret'.error.message, e)
          /\ query_cache' = query_cache
          /\ row_cache' = row_cache
          /\ last_rows' = last_rows
          /\ cache_exists(q)' = cache_exists(q) ]_vars

\* the source query of a first-ever poll has failed, after time has passed:
\* the error is with the caller and the query has no entry
C17_Witness ==
  /\ ret.op = "raise"
  /\ ret.call = "process_select"
  /\ \E e \in SourceErrors : ends_with(ret.error.message, e)
  /\ ~cache_exists(ret.q)
  /\ now > 0

\* C18: with a collaborator that has none of the probed methods the operation
\* raises a ConfigurationError, an error of another kind than the one raised
\* when the query execution itself fails.
C18_NoMethodIsConfigurationError ==
  [][ \A q \in QueryHashes :
        process_select_no_method(q) =>
          /\ ret'.op = "raise"
          /\ ret'.error.type = "ConfigurationError"
          /\ \A e \in SourceErrors : ret'.error.type # execute_error(e).type ]_vars

\* C19: when the retention cleanup that process_select runs first fails on
\* the cache file, process_select still returns a normal result.
C19_CleanupFailureSwallowed ==
  [][ \A q \in QueryHashes :
        process_select_cleanup_fails(q) =>
          /\ ret'.op = "process_select"
          /\ ret'.q = q ]_vars

\* a step in which a statement of the write phase of process_select or of the
\* delete phase of clear_cache_completely fails
write_phase_failed ==
  /\ now' = now
  /\ ret'.op = "raise"
  /\ ret'.at \in {"process_select", "clear_cache_completely"}

\* C20 (as stated): when a statement of the write phase of process_select or
\* of the delete phase of clear_cache_completely fails, the error reaches the
\* caller and the three tables are as before the call.  Stated for a
\* deployment whose local clock is UTC.
C20_FailedWriteChangesNothing ==
  [][ (tz = 0 /\ write_phase_failed) =>
        /\ ret'.error = storage_error
        /\ query_cache' = query_cache
        /\ row_cache' = row_cache
        /\ deleted_rows' = deleted_rows ]_vars

\* C20 (amended): when a statement of the write phase of process_select or of
\* the delete phase of clear_cache_completely fails, the error reaches the
\* caller and nothing the phase wrote is kept: query_cache and row_cache are
\* as before the call, and deleted_rows is as before the call except for the
\* expired entries that the cleanup of that process_select had already purged.
C20_FailedWriteKeepsOnlyPurge ==
  [][ write_phase_failed =>
        /\ ret'.error = storage_error
        /\ query_cache' = query_cache
        /\ row_cache' = row_cache
        /\ deleted_rows' = IF ret'.at = "process_select"
                             THEN after_cleanup(deleted_rows)
                             ELSE deleted_rows ]_vars

\* a process_select on a cached query failed after its transaction had
\* written, at a time when the store held Deleted Row Entries
C20_Witness ==
  /\ ret.op = "raise"
  /\ ret.at = "process_select"
  /\ ret.uncommitted
  /\ cache_exists(ret.q)
  /\ cached_rows(ret.q) # {}
  /\ deleted_of(ret.q) # {}
  /\ now > 0

\* C21: constructing a new cache instance over the same cache file changes
\* none of the three tables; the first process_select after it on a query that
\* was polled before is a cache hit, with empty added and removed when the
\* source result is unchanged, and with every row that vanished from the
\* source while the process was down in removed.
C21_RestartKeepsHistory ==
  [][ /\ \A c \in Collaborators : LocalCache_init(c) => tables' = tables
      /\ \A q \in QueryHashes :
           ( /\ now' = now
             /\ ret'.op = "process_select"
             /\ ret'.q = q
             /\ restarted
             /\ last_rows[q] # NoSource ) =>
             /\ ret'.cache_hit
             /\ (last_rows'[q] = last_rows[q] =>
                   ret'.added = <<>> /\ ret'.removed = <<>>)
             /\ (last_rows[q] \ last_rows'[q]) \subseteq Range(ret'.removed) ]_vars

\* C22: get_deleted_records returns only Deleted Row Entries of the given
\* query, each row with its deletion timestamp, newest deletion first; and
\* whenever hours_ago is supplied, 0 included, it returns no entry that was
\* deleted more than hours_ago hours ago.  Stated for a deployment whose
\* local clock is UTC, where the stamps and the window use the same clock.
C22_DeletedRecordsWithinWindow ==
  [][ \A q \in QueryHashes, h \in HoursAgo :
        (tz = 0 /\ get_deleted_records(q, h)) =>
          /\ \A i \in DOMAIN ret'.data :
               \E d \in deleted_of(q) :
                 ret'.data[i] = [row |-> json_loads(d.row_data),
                                 deleted_at |-> d.deleted_at]
          /\ \A i, j \in DOMAIN ret'.data :
               i < j => ret'.data[i].deleted_at >= ret'.data[j].deleted_at
          /\ h # <<>> =>
               \A i \in DOMAIN ret'.data :
                 ret'.data[i].deleted_at >= sqlite_now - h[1] ]_vars

\* C23: cleanup_old_deleted_records returns the number of Deleted Row Entries
\* it removed; a second call made on the store the first one leaves, at the
\* same time, removes nothing and returns 0; on a store without Deleted Row
\* Entries the call returns 0 and raises nothing.
C23_CleanupIdempotent ==
  [][ cleanup_old_deleted_records =>
        /\ ret'.op = "cleanup"
        /\ deleted_rows' \subseteq deleted_rows
        /\ ret'.count = Cardinality(deleted_rows \ deleted_rows')
        /\ after_cleanup(deleted_rows)' = deleted_rows'
        /\ Cardinality(deleted_rows' \ after_cleanup(deleted_rows)') = 0
        /\ deleted_rows = {} => (ret'.count = 0 /\ deleted_rows' = {}) ]_vars

\* a cleanup has removed two expired Deleted Row Entries at once
C23_Witness ==
  /\ ret.op = "cleanup"
  /\ ret.count = 2
  /\ deleted_rows = {}

\* C24: a successful process_select leaves a Query Cache Entry for its query;
\* no step other than a clear_cache_completely (process_select on any query,
\* get_all_data, get_deleted_records, get_cache_stats, cleanup, time passing)
\* removes a Query Cache Entry or changes its creation timestamp; and a
\* process_select on a query that has an entry returns cache_hit = true.
C24_QueryEntryPersists ==
  [][ /\ \A q \in TwoQueries :
           (now' = now /\ ret'.op = "process_select" /\ ret'.q = q) => cache_exists(q)'
      /\ ret'.op # "clear" =>
           \A e \in query_cache :
             \E f \in query_cache' :
               f.query_hash = e.query_hash /\ f.created_at = e.created_at
      /\ \A q \in TwoQueries :
           ( /\ now' = now
             /\ ret'.op = "process_select"
             /\ ret'.q = q
             /\ cache_exists(q) ) => ret'.cache_hit ]_vars

\* both queries are cached, and the one polled last was created in an earlier
\* hour than this poll, a cache hit, updated it
C24_Witness ==
  /\ ret.op = "process_select"
  /\ ret.cache_hit
  /\ \A q \in TwoQueries : cache_exists(q)
  /\ \E e \in query_entry(ret.q) : e.created_at < e.updated_at

\* C25: in every process_select result `data` equals `added`; on a cache hit
\* it holds only rows of this source result that were not in the previous
\* one, and none of the rows reported as removed; on a first run it holds all
\* the rows of the source result.
C25_DataIsAdded ==
  [][ \A q \in QueryHashes :
        (now' = now /\ ret'.op = "process_select" /\ ret'.q = q) =>
          /\ ret'.data = ret'.added
          /\ ret'.cache_hit =>
               /\ Range(ret'.data) \subseteq (last_rows'[q] \ last_rows[q])
               /\ Range(ret'.data) \cap Range(ret'.removed) = {}
          /\ ~ret'.cache_hit =>
               /\ Range(ret'.data) = last_rows'[q]
               /\ Len(ret'.data) = ret'.total_new ]_vars

\* a cache hit whose source result had a new row next to an unchanged one has
\* returned: `data` holds fewer rows than the source returned
C25_Witness ==
  /\ ret.op = "process_select"
  /\ ret.cache_hit
  /\ Len(ret.data) = 1
  /\ ret.total_new = 2
  /\ Cardinality(cached_rows(ret.q)) = 2
  /\ ret.removed = <<>>

\* the values a row holds, in order, whatever its representation
values_of(row) ==
  IF row.type = "dict"
    THEN [i \in DOMAIN row.items |-> row.items[i][2]]
    ELSE row.items

\* the rows of a result set as plain tuples of values
value_rows_of(result) == [i \in DOMAIN result.items |-> values_of(result.items[i])]

\* C26: a non-empty list of rows normalizes to the list of the tuples of its
\* rows' values, and the same rows given as tuples, as lists or as mappings
\* normalize to that same list, with the same Row Identities; a single
\* (non-empty) tuple is wrapped as a one-row list; None, an empty list and
\* an empty tuple normalize to the empty list.
C26_NormalizationIndependent ==
  ret.op = "_ensure_tuple_format" =>
    /\ (ret.result.type = "list" /\ ~falsy(ret.result)) =>
         /\ ret.rows = [i \in DOMAIN ret.result.items |->
                          py_tuple(values_of(ret.result.items[i]))]
         /\ \A rep \in Representations :
              LET other == ensure_tuple_format(rows_as(rep, value_rows_of(ret.result))) IN
                /\ other = ret.rows
                /\ [i \in DOMAIN other |-> get_row_hash(other[i].items)]
                     = [i \in DOMAIN ret.rows |-> get_row_hash(ret.rows[i].items)]
    /\ (ret.result.type = "tuple" /\ ~falsy(ret.result)) => ret.rows = << ret.result >>
    /\ falsy(ret.result) => ret.rows = <<>>

\* a list of two mappings with two columns each has been normalized
C26_Witness ==
  /\ ret.op = "_ensure_tuple_format"
  /\ ret.result.type = "list"
  /\ Len(ret.result.items) = 2
  /\ \A i \in DOMAIN ret.result.items :
       ret.result.items[i].type = "dict" /\ Len(ret.result.items[i].items) = 2
  /\ Len(ret.rows) = 2

\* C27: when the process_select calls of two callers on the same query have
\* both completed, however their steps interleaved, the Active Row Entries of
\* the query are the distinct rows of the source result of the caller that
\* wrote last, and the active-row count stored in the Query Cache Entry is
\* the number of Active Row Entries.
C27_LastWriterWins ==
  \A p \in Callers :
    ( /\ \A c \in Callers : calls[c].pc \in {"done", "raised"}
      /\ \A c \in Callers : calls[c].q = calls[p].q
      /\ calls[p].pc = "done"
      /\ calls[p].last_writer ) =>
      /\ active_rows(calls[p].q) = Range(calls[p].new_data)
      /\ \A e \in query_entry(calls[p].q) :
           e.total_rows = Cardinality(cached_rows(calls[p].q))

\* the row identities of a set of rows
hashes_of(rows) == { get_row_hash(r) : r \in rows }

\* C28: a row identity present in the source results of two consecutive polls
\* of a query is the identity of no row in `added` and of no row in `removed`
\* of the second poll, and the second poll leaves its Active Row Entry as it
\* was: same serialized values, same insertion timestamp.
C28_KeptRowUntouched ==
  [][ \A q \in QueryHashes :
        ( /\ now' = now
          /\ ret'.op = "process_select"
          /\ ret'.q = q
          /\ last_rows[q] # NoSource ) =>
          \A h \in hashes_of(last_rows[q]) \cap hashes_of(last_rows'[q]) :
            /\ h \notin hashes_of(Range(ret'.added))
            /\ h \notin hashes_of(Range(ret'.removed))
            /\ \E r \in cached_rows(q) :
                 /\ r.row_hash = h
                 /\ { x \in cached_rows(q)' : x.row_hash = h } = {r} ]_vars

\* a poll that found a new row next to a row stored in an earlier hour has
\* returned, and the stored row still carries its earlier timestamp
C28_Witness ==
  /\ ret.op = "process_select"
  /\ ret.cache_hit
  /\ ret.added # <<>>
  /\ \E r \in cached_rows(ret.q) :
       /\ r.created_at < now
       /\ json_loads(r.row_data) \in last_rows[ret.q]
       /\ r.row_hash \notin hashes_of(Range(ret.added))

\* C29: in every state reached by calls made one at a time, the active-row
\* count stored in each Query Cache Entry is the number of Active Row Entries
\* of its query, every Active Row Entry belongs to a query that has an entry,
\* and the total_active_rows that get_cache_stats reports is the number of
\* Active Row Entries in the store.
C29_StoredCountIsActual ==
  /\ \A e \in query_cache : e.total_rows = Cardinality(cached_rows(e.query_hash))
  /\ \A r \in row_cache : cache_exists(r.query_hash)
  /\ ret.op = "get_cache_stats" =>
       /\ ret.total_active_rows = Cardinality(row_cache)
       /\ ret.total_queries = Cardinality(query_cache)

\* statistics have been read while the two queries held different numbers of
\* Active Row Entries, one of them after losing a row
C29_Witness ==
  /\ ret.op = "get_cache_stats"
  /\ ret.total_queries = 2
  /\ ret.total_active_rows = 1
  /\ Cardinality(row_cache) = 1
  /\ deleted_rows # {}

\* C30: a retention cleanup changes only Deleted Row Entries.  The cleanup on
\* demand leaves query_cache and row_cache as they are and only removes
\* Deleted Row Entries.  A process_select, which runs the cleanup first,
\* removes no Query Cache Entry and changes no creation timestamp, and
\* removes or changes no Active Row Entry other than those of its own query
\* whose identity is absent from its source result; when it raises, both
\* tables are as before.  This holds however old the entries are.
C30_CleanupOnlyDeleted ==
  [][ /\ cleanup_old_deleted_records =>
           /\ query_cache' = query_cache
           /\ row_cache' = row_cache
           /\ deleted_rows' \subseteq deleted_rows
      /\ \A q \in QueryHashes :
           (process_select_ended /\ ret'.q = q) =>
             /\ \A e \in query_cache :
                  \E f \in query_cache' :
                    f.query_hash = e.query_hash /\ f.created_at = e.created_at
             /\ ret'.op = "raise" => row_cache' = row_cache
             /\ ret'.op = "process_select" =>
                  \A r \in row_cache :
                    (r.query_hash # q \/ r.row_hash \in hashes_of(last_rows'[q]))
                      => r \in row_cache' ]_vars

\* a cleanup on demand has removed an expired Deleted Row Entry and left an
\* Active Row Entry and a Query Cache Entry that are older than the
\* retention window
C30_Witness ==
  /\ ret.op = "cleanup"
  /\ ret.count > 0
  /\ \E r \in row_cache : r.created_at < sqlite_now - keep_deleted_hours
  /\ \E e \in query_cache : e.created_at < local_now - keep_deleted_hours

\* C31: one source query makes exactly one call on the collaborator: the call
\* goes to the first of execute_query, query, fetch_all, select that the
\* collaborator exposes, with the SQL text and the parameters; no method after
\* it in the probing order is called, and a failing call is not repeated.
C31_FirstCapabilityOnce ==
  [][ \A sql \in SqlTextsProbe, params \in ParamsProbe :
        ( /\ \/ \E result \in SourcesProbe : execute_on_database(sql, params, result)
             \/ \E e \in SourceErrors : execute_on_database_fails(sql, params, e) )
        => /\ Len(ret'.invoked) = 1
           /\ ret'.invoked[1].sql = sql
           /\ ret'.invoked[1].params = params
           /\ \E i \in DOMAIN Capabilities :
                /\ ret'.invoked[1].method = Capabilities[i]
                /\ Capabilities[i] \in db_connection
                /\ \A j \in 1..(i - 1) : Capabilities[j] \notin db_connection ]_vars

\* a collaborator exposing query and select but not execute_query raised on
\* its one call, which went to query
C31_Witness ==
  /\ ret.op = "_execute_on_database"
  /\ ret.raised
  /\ db_connection = {"query", "select"}
  /\ Len(ret.invoked) = 1
  /\ ret.invoked[1].method = "query"

\* C32: two process lifetimes with the same collaborator (same class, same
\* connection attributes) derive the same cache file.
C32_SameSourceSameFile ==
  [][ ( /\ ret.op = "_generate_persistent_cache_name"
        /\ ret'.op = "_generate_persistent_cache_name"
        /\ ret'.collaborator = ret.collaborator )
      => ret'.cache_file = ret.cache_file ]_vars

\* C33: a row reported in `removed`, and a row returned by get_all_data or by
\* get_deleted_records, is equal, value by value, to a row the caller was given
\* in `added` by an earlier process_select.
C33_StorageRoundTrip ==
  LET given(row) == \E a \in calls[1].received : rows_equal(row, a)
  IN /\ ret.op = "process_select" => \A row \in Range(ret.removed) : given(row)
     /\ (ret.op = "get_all_data" /\ ~ret.executed) => \A row \in Range(ret.data) : given(row)
     /\ ret.op = "get_deleted_records" => \A i \in DOMAIN ret.data : given(ret.data[i].row)

\* C34: a query has at most one Deleted Row Entry per Row Identity, and after
\* a process_select that removes a row the one Deleted Row Entry of that row
\* carries the timestamp of this removal, whether or not the row had a
\* Deleted Row Entry from an earlier removal.
C34_OneDeletedEntryLatestRemoval ==
  [][ \A q \in QueryHashes, new_data \in SourcesRemoval :
        (process_select(q, new_data) /\ cache_exists(q))
        => /\ \A d1, d2 \in deleted_rows' :
                (d1.query_hash = d2.query_hash /\ d1.row_hash = d2.row_hash) => d1 = d2
           /\ \A h \in cached_hashes_of(q) \ new_hashes_of(new_data) :
                \E d \in deleted_rows' :
                  /\ d.query_hash = q
                  /\ d.row_hash = h
                  /\ d.deleted_at = local_now ]_vars

\* a row removed in hour 0 and again in hour 1, with the first Deleted Row
\* Entry not yet expired: its one entry now carries the stamp of hour 1
C34_Witness ==
  /\ ret.op = "process_select"
  /\ now = 1
  /\ tz = 0
  /\ \E row \in Range(ret.removed) :
       /\ <<row, 0>> \in calls[1].removed_at
       /\ \E d \in deleted_rows :
            /\ d.row_hash = get_row_hash(row)
            /\ d.deleted_at = local_now
       /\ Cardinality({ d \in deleted_rows : d.row_hash = get_row_hash(row) }) = 1

\* C35: after any sequence of operations run one at a time, every Active Row
\* Entry and every Deleted Row Entry belongs to a query that has a Query Cache
\* Entry.
C35_RowsHaveQueryEntry ==
  /\ \A r \in row_cache : \E e \in query_cache : e.query_hash = r.query_hash
  /\ \A d \in deleted_rows : \E e \in query_cache : e.query_hash = d.query_hash

\* a query wiped by a clear was polled again and has an Active Row Entry,
\* while the other query has a Deleted Row Entry
C35_Witness ==
  /\ ret.op = "process_select"
  /\ ret.after_clear
  /\ cached_rows(ret.q) # {}
  /\ \E d \in deleted_rows : d.query_hash # ret.q

\* C36: when the source result holds the same row more than once, total_new
\* counts every returned row, the stored count of the query counts every Row
\* Identity once, a first run returns the result as received in `added`, and a
\* cache hit lists every newly appearing Row Identity once in `added`.
C36_Duplicates ==
  [][ \A q \in QueryHashes, new_data \in SourcesRoundTrip :
        ( /\ ret'.op = "process_select"
          /\ \E i, j \in DOMAIN new_data : i < j /\ new_data[i] = new_data[j]
          /\ last_rows'[q] = Range(new_data)
          /\ process_select(q, new_data) )
        => /\ ret'.total_new = Len(new_data)
           /\ \A e \in query_cache' :
                e.query_hash = q => e.total_rows = Cardinality(new_hashes_of(new_data))
           /\ ~cache_exists(q) => ret'.added = new_data
           /\ cache_exists(q) =>
                /\ \A i, j \in DOMAIN ret'.added :
                     i # j => get_row_hash(ret'.added[i]) # get_row_hash(ret'.added[j])
                /\ { get_row_hash(ret'.added[i]) : i \in DOMAIN ret'.added }
                     = new_hashes_of(new_data) \ cached_hashes_of(q) ]_vars

\* a cache hit whose source returned one new row twice: two rows counted, one
\* row added, one row stored
C36_Witness ==
  /\ ret.op = "process_select"
  /\ ret.cache_hit
  /\ ret.total_new = 2
  /\ Cardinality(last_rows[ret.q]) = 1
  /\ Len(ret.added) = 1
  /\ \E e \in query_cache : e.query_hash = ret.q /\ e.total_rows = 1

\* C37: a non-empty result whose first row is neither a tuple, a list nor a
\* dict is normalized to the empty sequence without an error, and a cache-hit
\* process_select on it reports every Active Row Entry of the query as removed
\* and moves it to the Deleted Row Entries.
C37_UnrecognizedShapeRemovesAll ==
  [][ \A q \in QueryHashes, result \in UnrecognizedResults :
        (process_select_returning(q, result) /\ cache_exists(q))
        => /\ ensure_tuple_format(result) = <<>>
           /\ ret'.op = "process_select"
           /\ ret'.total_new = 0
           /\ ret'.added = <<>>
           /\ Range(ret'.removed) = active_rows(q)
           /\ Len(ret'.removed) = Cardinality(cached_rows(q))
           /\ cached_rows(q)' = {}
           /\ \A r \in cached_rows(q) :
                \E d \in deleted_rows' :
                  /\ d.query_hash = q
                  /\ d.row_hash = r.row_hash
                  /\ d.row_data = r.row_data
                  /\ d.deleted_at = local_now ]_vars

\* every result of this collaborator is non-empty, and a cache hit counted no
\* row in it and removed the Active Row Entry of the query
C37_Witness ==
  /\ ret.op = "process_select"
  /\ ret.cache_hit
  /\ ret.total_new = 0
  /\ Len(ret.removed) = 1
  /\ cached_rows(ret.q) = {}
  /\ \E d \in deleted_rows : json_loads(d.row_data) = ret.removed[1]

\* C38: every row process_select delivers to main() in `data` is an Active Row
\* Entry when main() gets it, and a delivered row whose processing raised is
\* not delivered again by a later cycle as long as the source keeps returning
\* it and clear_cache_completely has not run.
C38_DeliveredOnce ==
  [][ \A new_data \in SourcesIntegration :
        ( /\ ret'.op = "process_select"
          /\ last_rows'[script] = Range(new_data)
          /\ main_process_select(new_data) )
        => /\ \A row \in Range(ret'.data) :
                \E r \in row_cache' : r.query_hash = script /\ r.row_hash = get_row_hash(row)
           /\ \A row \in calls[1].failed \cap Range(new_data) :
                row \notin Range(ret'.data) ]_vars

\* a cycle delivered a new row while the source still returned a row whose
\* processing had raised in an earlier cycle, and did not deliver that row
C38_Witness ==
  /\ ret.op = "process_select"
  /\ ret.cache_hit
  /\ Len(ret.data) = 1
  /\ \E row \in calls[1].failed :
       /\ row \in last_rows[script]
       /\ row \notin Range(ret.data)

TypeOK ==
  /\ now \in 0..MaxTime
  /\ tz \in TzOffsets
====
